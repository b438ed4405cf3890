--------------------------- MODULE EmitterMapProofs ---------------------------
(***************************************************************************)
(* Any number of tasks may use any number of event types for the first time *)
(* at once: they end up on one ring per type, of that type, and that ring   *)
(* has no Publisher but those in the map and those somebody works with.     *)
(* Every use of a type is one step of EmitterRegistry.                      *)
(***************************************************************************)
EXTENDS EmitterMap, FiniteSetTheorems, TLAPS

(* The invariant without the counters of Publishers, which it does not need. *)
Shape ==
  /\ emitters \in [Types -> Rings \cup {None}]
  /\ kind \in [Rings -> Types \cup {None}]
  /\ at \in [Users -> {"idle", "missed", "made", "got", "holds"}]
  /\ want \in [Users -> Types \cup {None}]
  /\ ring \in [Users -> Rings \cup {None}]

Inv == Shape /\ MapInv

LEMMA InvInit == Init => Inv
BY DEF Init, Inv, Shape, MapInv, Using

(* A lookup, an insertion and a clone give a user the entry of its type.    *)
LEMMA InvNext == Inv /\ [Next]_vars => Inv'
<1> SUFFICES ASSUME Inv, [Next]_vars PROVE Inv'
  OBVIOUS
<1> USE EmitterMapConstants DEF Inv, Shape, Move, Key, Found
<1>1. CASE UNCHANGED vars
  BY <1>1 DEF vars, MapInv, Using
<1>2. CASE DropInner
  BY <1>2 DEF DropInner, MapInv, Using
<1>3. ASSUME NEW u \in Users, NEW t \in Types, Lookup(u, t) PROVE Inv'
  <2>1. Shape'
    BY <1>3 DEF Lookup
  <2>2. MapInv'
    BY <1>3 DEF Lookup, MapInv, Using
  <2> QED BY <2>1, <2>2
<1>4. ASSUME NEW u \in Users, Create(u) PROVE Inv'
  <2>1. Shape'
    BY <1>4 DEF Create, MapInv
  <2>2. MapInv'
    BY <1>4 DEF Create, MapInv, Using
  <2> QED BY <2>1, <2>2
<1>5. ASSUME NEW u \in Users, Insert(u) PROVE Inv'
  <2>1. want[u] \in Types /\ ring[u] \in Rings /\ kind[ring[u]] = want[u]
    BY <1>5 DEF Insert, MapInv
  <2>2. CASE InsertFirst(u)
    BY <1>5, <2>1, <2>2 DEF Insert, InsertFirst, MapInv, Using
  <2>3. CASE InsertLate(u)
    BY <1>5, <2>1, <2>3 DEF Insert, InsertLate, MapInv, Using
  <2> QED BY <1>5, <2>2, <2>3 DEF Insert
<1>6. ASSUME NEW u \in Users, Emitted(u) PROVE Inv'
  BY <1>6 DEF Emitted, MapInv, Using
<1>7. ASSUME NEW u \in Users, Clone(u) PROVE Inv'
  BY <1>7 DEF Clone, MapInv, Using
<1>8. ASSUME NEW u \in Users, Release(u) PROVE Inv'
  BY <1>8 DEF Release, MapInv, Using
<1> QED
  BY <1>1, <1>2, <1>3, <1>4, <1>5, <1>6, <1>7, <1>8 DEF Next

(* Every entry of the map is of its type and is what its users get          *)
(* (bus.rs:45-58).                                                          *)
THEOREM MapKept == Spec => []MapInv
<1>1. Inv => MapInv
  BY DEF Inv
<1> QED
  BY InvInit, InvNext, <1>1, PTL DEF Spec

(* Two tasks that use a type at the same time use the same ring             *)
(* (bus.rs:45-58).                                                          *)
THEOREM OneRingPerType == Spec => []OneRing
<1>1. Inv => OneRing
  BY DEF Inv, MapInv, OneRing
<1> QED
  BY InvInit, InvNext, <1>1, PTL DEF Spec

(* The unwrap() after a downcast never panics (emitter.rs:38-40, 63-68).    *)
THEOREM NoDowncastFails == Spec => []DowncastSucceeds
<1>1. Inv => DowncastSucceeds
  BY DEF Inv, MapInv, DowncastSucceeds
<1> QED
  BY InvInit, InvNext, <1>1, PTL DEF Spec

-----------------------------------------------------------------------------
(* Counting Publishers *)

\* Inner outlives every call that borrows its map.
MapBorrowed == inner \/ \A u \in Users : at[u] \in {"idle", "holds"}

CountInv ==
  /\ Inv
  /\ inner \in BOOLEAN
  /\ publishers \in [Rings -> Int]
  /\ MapBorrowed
  /\ NoStrayPublisher

\* The Publishers of a ring are one per holder, and the one in the map.
Counted(r) == publishers[r] = Cardinality(Holders(r)) + Entries(r)

LEMMA HoldersCount ==
  ASSUME NEW r \in Rings
  PROVE  IsFiniteSet(Holders(r)) /\ Cardinality(Holders(r)) \in Nat /\ Entries(r) \in {0, 1}
<1>1. Holders(r) \subseteq Users
  BY DEF Holders
<1>2. IsFiniteSet(Holders(r))
  BY <1>1, EmitterMapConstants, FS_Subset
<1> QED
  BY <1>2, FS_CardinalityType DEF Entries

\* Nothing happens to a ring whose holders, entry and counter stay.
LEMMA CountedFrame ==
  ASSUME NEW r \in Rings, Counted(r), Holders(r)' = Holders(r), Entries(r)' = Entries(r),
         publishers'[r] = publishers[r]
  PROVE  Counted(r)'
BY DEF Counted

LEMMA HolderComes ==
  ASSUME NEW r \in Rings, NEW u \in Users, Counted(r),
         u \notin Holders(r), Holders(r)' = Holders(r) \cup {u},
         Entries(r)' = Entries(r), publishers'[r] = publishers[r] + 1
  PROVE  Counted(r)'
<1>1. Cardinality(Holders(r) \cup {u}) = Cardinality(Holders(r)) + 1
  BY HoldersCount, FS_AddElement
<1> QED
  BY <1>1, HoldersCount DEF Counted

\* A holder that leaves drops its Publisher or moves it into the map.
LEMMA HolderGoes ==
  ASSUME NEW r \in Rings, NEW u \in Users, Counted(r),
         u \in Holders(r), Holders(r)' = Holders(r) \ {u},
         publishers'[r] - Entries(r)' = publishers[r] - Entries(r) - 1,
         publishers'[r] \in Int, Entries(r)' \in {0, 1}
  PROVE  Counted(r)'
<1>1. Cardinality(Holders(r) \ {u}) = Cardinality(Holders(r)) - 1
  BY HoldersCount, FS_RemoveElement
<1> QED
  BY <1>1, HoldersCount DEF Counted

LEMMA CountInvInit == Init => CountInv
<1> SUFFICES ASSUME Init PROVE CountInv
  OBVIOUS
<1>1. \A r \in Rings : Holders(r) = {} /\ Entries(r) = 0
  BY EmitterMapConstants DEF Init, Holders, Entries
<1>2. NoStrayPublisher
  BY <1>1, FS_EmptySet DEF Init, NoStrayPublisher
<1> QED
  BY <1>2, InvInit DEF Init, CountInv, MapBorrowed

(* A ring just made has neither a holder nor an entry.                      *)
LEMMA CreateCounts ==
  ASSUME CountInv, NEW u \in Users, Create(u), NEW r \in Rings
  PROVE  Counted(r)'
<1>1. PICK q \in Rings :
        /\ kind[q] = None /\ publishers' = [publishers EXCEPT ![q] = 1]
        /\ ring' = [ring EXCEPT ![u] = q]
  BY DEF Create
<1>2. /\ at[u] = "missed" /\ at' = [at EXCEPT ![u] = "made"]
      /\ UNCHANGED <<emitters, inner, want>>
  BY DEF Create, Move
<1>3. Entries(r)' = Entries(r) /\ Counted(r)
  BY <1>2 DEF Entries, CountInv, NoStrayPublisher, Counted
<1>4. CASE r = q
  <2>1. Holders(r) = {}
    BY <1>1, <1>4, EmitterMapConstants DEF CountInv, Inv, Shape, MapInv, Using, Holders
  <2>2. u \notin Holders(r) /\ Holders(r)' = Holders(r) \cup {u}
    BY <1>1, <1>2, <1>4, <2>1 DEF CountInv, Inv, Shape, Holders
  <2>3. Entries(r) = 0
    BY <1>1, <1>4, EmitterMapConstants DEF CountInv, Inv, Shape, MapInv, Entries
  <2>4. publishers[r] = 0 /\ publishers'[r] = 1
    BY <1>1, <1>3, <1>4, <2>1, <2>3, FS_EmptySet DEF CountInv, Counted
  <2> QED
    BY <1>3, <2>2, <2>4, HolderComes
<1>5. CASE r # q
  <2>1. Holders(r)' = Holders(r)
    BY <1>1, <1>2, <1>5 DEF CountInv, Inv, Shape, Holders
  <2> QED
    BY <1>1, <1>3, <1>5, <2>1, CountedFrame DEF CountInv
<1> QED
  BY <1>4, <1>5

(* A Publisher goes from its maker into the map, or is dropped because the  *)
(* map has one already.                                                     *)
LEMMA InsertCounts ==
  ASSUME CountInv, NEW u \in Users, Insert(u), NEW r \in Rings
  PROVE  Counted(r)'
<1> USE DEF CountInv, Inv, Shape, Key, Found
<1>1. /\ at[u] = "made" /\ at' = [at EXCEPT ![u] = "got"] /\ UNCHANGED <<inner, kind, want>>
      /\ inner /\ Counted(r)
      /\ want[u] \in Types /\ ring[u] \in Rings /\ kind[ring[u]] = want[u]
  BY DEF Insert, Move, MapBorrowed, MapInv, NoStrayPublisher, Counted
<1>2. CASE InsertFirst(u)
  <2>1. /\ emitters[want[u]] = None /\ emitters' = [emitters EXCEPT ![want[u]] = ring[u]]
        /\ UNCHANGED <<publishers, ring>>
    BY <1>2 DEF InsertFirst
  <2>2. CASE r = ring[u]
    <3>1. u \in Holders(r) /\ Holders(r)' = Holders(r) \ {u}
      BY <1>1, <2>1, <2>2 DEF Holders
    <3>2. Entries(r) = 0
      BY <1>1, <2>1, <2>2, EmitterMapConstants DEF Entries, MapInv
    <3>3. Entries(r)' = 1
      <4>1. emitters'[want[u]] = r /\ inner'
        BY <1>1, <2>1, <2>2
      <4> QED
        BY <1>1, <4>1 DEF Entries
    <3> QED
      BY <1>1, <2>1, <3>1, <3>2, <3>3, HolderGoes
  <2>3. CASE r # ring[u]
    <3>1. Holders(r)' = Holders(r)
      BY <1>1, <2>1, <2>3 DEF Holders
    <3>2. (\E t \in Types : emitters'[t] = r) <=> \E t \in Types : emitters[t] = r
      BY <1>1, <2>1, <2>3, EmitterMapConstants
    <3>3. Entries(r)' = Entries(r)
      BY <1>1, <3>2 DEF Entries
    <3> QED
      BY <1>1, <2>1, <3>1, <3>3, CountedFrame
  <2> QED
    BY <2>2, <2>3
<1>3. CASE InsertLate(u)
  <2>1. /\ publishers' = [publishers EXCEPT ![ring[u]] = @ - 1]
        /\ ring' = [ring EXCEPT ![u] = emitters[want[u]]]
        /\ UNCHANGED emitters
    BY <1>3 DEF InsertLate
  <2>2. Entries(r)' = Entries(r)
    BY <1>1, <2>1 DEF Entries
  <2>3. CASE r = ring[u]
    <3>1. u \in Holders(r) /\ Holders(r)' = Holders(r) \ {u}
      BY <1>1, <2>1, <2>3 DEF Holders
    <3> QED
      BY <1>1, <2>1, <2>2, <2>3, <3>1, HoldersCount, HolderGoes
  <2>4. CASE r # ring[u]
    <3>1. Holders(r)' = Holders(r)
      BY <1>1, <2>1, <2>4 DEF Holders
    <3> QED
      BY <1>1, <2>1, <2>2, <2>4, <3>1, CountedFrame
  <2> QED
    BY <2>3, <2>4
<1> QED
  BY <1>2, <1>3 DEF Insert

LEMMA CloneCounts ==
  ASSUME CountInv, NEW u \in Users, Clone(u), NEW r \in Rings
  PROVE  Counted(r)'
<1> USE DEF CountInv, Inv, Shape
<1>1. /\ at[u] = "got" /\ at' = [at EXCEPT ![u] = "holds"]
      /\ publishers' = [publishers EXCEPT ![ring[u]] = @ + 1]
      /\ UNCHANGED <<emitters, inner, ring>>
      /\ ring[u] \in Rings /\ Counted(r)
  BY DEF Clone, Move, MapInv, Using, NoStrayPublisher, Counted
<1>2. Entries(r)' = Entries(r)
  BY <1>1 DEF Entries
<1>3. CASE r = ring[u]
  <2>1. u \notin Holders(r) /\ Holders(r)' = Holders(r) \cup {u}
    BY <1>1, <1>3 DEF Holders
  <2> QED
    BY <1>1, <1>2, <1>3, <2>1, HolderComes
<1>4. CASE r # ring[u]
  <2>1. Holders(r)' = Holders(r)
    BY <1>1, <1>4 DEF Holders
  <2> QED
    BY <1>1, <1>2, <1>4, <2>1, CountedFrame
<1> QED
  BY <1>3, <1>4

LEMMA ReleaseCounts ==
  ASSUME CountInv, NEW u \in Users, Release(u), NEW r \in Rings
  PROVE  Counted(r)'
<1> USE DEF CountInv, Inv, Shape
<1>1. /\ at[u] = "holds" /\ at' = [at EXCEPT ![u] = "idle"]
      /\ publishers' = [publishers EXCEPT ![ring[u]] = @ - 1]
      /\ ring' = [ring EXCEPT ![u] = None]
      /\ UNCHANGED <<emitters, inner>>
      /\ ring[u] \in Rings /\ Counted(r)
  BY DEF Release, Move, MapInv, Using, NoStrayPublisher, Counted
<1>2. Entries(r)' = Entries(r)
  BY <1>1 DEF Entries
<1>3. CASE r = ring[u]
  <2>1. u \in Holders(r) /\ Holders(r)' = Holders(r) \ {u}
    BY <1>1, <1>3 DEF Holders
  <2> QED
    BY <1>1, <1>2, <1>3, <2>1, HoldersCount, HolderGoes
<1>4. CASE r # ring[u]
  <2>1. Holders(r)' = Holders(r)
    BY <1>1, <1>4 DEF Holders
  <2> QED
    BY <1>1, <1>2, <1>4, <2>1, CountedFrame
<1> QED
  BY <1>3, <1>4

(* With the map goes the Publisher of every entry, and no other.            *)
LEMMA DropInnerCounts ==
  ASSUME CountInv, DropInner, NEW r \in Rings
  PROVE  Counted(r)'
<1>1. Holders(r)' = Holders(r) /\ Entries(r)' = 0
  BY DEF DropInner, Holders, Entries
<1>2. publishers'[r] = publishers[r] - Entries(r)
  BY DEF DropInner, Entries, CountInv
<1> QED
  BY <1>1, <1>2, HoldersCount DEF Counted, CountInv, NoStrayPublisher

\* A reference into the map is got while Inner is there.
LEMMA MapBorrowedStep == CountInv /\ [Next]_vars => MapBorrowed' /\ inner' \in BOOLEAN
<1> SUFFICES ASSUME CountInv, [Next]_vars PROVE MapBorrowed' /\ inner' \in BOOLEAN
  OBVIOUS
<1> USE DEF CountInv, Inv, Shape, MapBorrowed, Move
<1>1. CASE UNCHANGED vars
  BY <1>1 DEF vars
<1>2. CASE DropInner
  BY <1>2 DEF DropInner
<1>3. ASSUME NEW u \in Users, NEW t \in Types, Lookup(u, t) PROVE MapBorrowed' /\ inner' \in BOOLEAN
  BY <1>3 DEF Lookup
<1>4. ASSUME NEW u \in Users, Create(u) PROVE MapBorrowed' /\ inner' \in BOOLEAN
  BY <1>4 DEF Create
<1>5. ASSUME NEW u \in Users, Insert(u) PROVE MapBorrowed' /\ inner' \in BOOLEAN
  BY <1>5 DEF Insert
<1>6. ASSUME NEW u \in Users, Emitted(u) \/ Clone(u) \/ Release(u)
      PROVE  MapBorrowed' /\ inner' \in BOOLEAN
  BY <1>6 DEF Emitted, Clone, Release
<1> QED
  BY <1>1, <1>2, <1>3, <1>4, <1>5, <1>6 DEF Next

\* Counters only change at a ring that exists, so they stay integers.
LEMMA PublishersStep == CountInv /\ [Next]_vars => publishers' \in [Rings -> Int]
<1> SUFFICES ASSUME CountInv, [Next]_vars PROVE publishers' \in [Rings -> Int]
  OBVIOUS
<1> USE DEF CountInv
<1>1. CASE UNCHANGED vars
  BY <1>1 DEF vars
<1>2. CASE DropInner
  BY <1>2 DEF DropInner
<1>3. ASSUME NEW u \in Users, NEW t \in Types, Lookup(u, t) PROVE publishers' \in [Rings -> Int]
  BY <1>3 DEF Lookup
<1>4. ASSUME NEW u \in Users, Create(u) PROVE publishers' \in [Rings -> Int]
  BY <1>4 DEF Create
<1>5. ASSUME NEW u \in Users, Insert(u) PROVE publishers' \in [Rings -> Int]
  BY <1>5 DEF Insert, InsertFirst, InsertLate
<1>6. ASSUME NEW u \in Users, Emitted(u) \/ Clone(u) \/ Release(u)
      PROVE  publishers' \in [Rings -> Int]
  BY <1>6 DEF Emitted, Clone, Release
<1> QED
  BY <1>1, <1>2, <1>3, <1>4, <1>5, <1>6 DEF Next

LEMMA CountInvNext == CountInv /\ [Next]_vars => CountInv'
<1> SUFFICES ASSUME CountInv, [Next]_vars PROVE CountInv'
  OBVIOUS
<1>1. ASSUME NEW r \in Rings PROVE Counted(r)'
  <2>1. Counted(r)
    BY DEF CountInv, NoStrayPublisher, Counted
  <2>2. CASE UNCHANGED vars
    <3>1. Holders(r)' = Holders(r) /\ Entries(r)' = Entries(r)
      BY <2>2 DEF vars, Holders, Entries
    <3> QED
      BY <2>1, <2>2, <3>1, CountedFrame DEF vars
  <2>3. ASSUME NEW u \in Users,
               (\E t \in Types : Lookup(u, t)) \/ Emitted(u)
        PROVE  Counted(r)'
    <3>1. Holders(r)' = Holders(r)
      BY <2>3 DEF Lookup, Emitted, Move, Holders, CountInv, Inv, Shape
    <3>2. Entries(r)' = Entries(r) /\ publishers' = publishers
      BY <2>3 DEF Lookup, Emitted, Entries
    <3> QED
      BY <2>1, <3>1, <3>2, CountedFrame
  <2> QED
    BY <2>2, <2>3, CreateCounts, InsertCounts, CloneCounts, ReleaseCounts, DropInnerCounts
       DEF Next
<1>2. NoStrayPublisher'
  BY <1>1 DEF Counted, NoStrayPublisher
<1> QED
  BY <1>2, InvNext, MapBorrowedStep, PublishersStep DEF CountInv

(* A Publisher that lost the race for the map, or that its task is done     *)
(* with, is dropped exactly once: none is left over that would keep a       *)
(* stream open for ever (bus.rs:52-56).                                     *)
THEOREM NoPublisherLeft == Spec => []NoStrayPublisher
<1>1. CountInv => NoStrayPublisher
  BY DEF CountInv
<1> QED
  BY CountInvInit, CountInvNext, <1>1, PTL DEF Spec

(* Every counter of Publishers is a natural number: no Publisher is dropped *)
(* that is not there (bus.rs:45-58).                                        *)
THEOREM TypeCorrect == Spec => []TypeOK
<1>1. CountInv => TypeOK
  <2> SUFFICES ASSUME CountInv PROVE TypeOK
    OBVIOUS
  <2>1. \A r \in Rings : publishers[r] \in Nat
    BY HoldersCount DEF CountInv, NoStrayPublisher
  <2> QED
    BY <2>1 DEF CountInv, Inv, Shape, TypeOK
<1> QED
  BY CountInvInit, CountInvNext, <1>1, PTL DEF Spec

-----------------------------------------------------------------------------
(* EmitterMap implements EmitterRegistry. *)

\* The abstract state, as the INSTANCE of EmitterRegistry has it.
AbsType == [u \in Users |-> IF Using(u) THEN want[u] ELSE None]
AbsUses == [u \in Users |-> IF Using(u) THEN ring[u] ELSE None]

LEMMA RegistryInit == Init => Registry!Init
BY DEF Init, Registry!Init, Using

\* A step after which every user uses what it used is none of the registry.
LEMMA RegistryStutters ==
  ASSUME UNCHANGED <<emitters, inner>>, AbsType' = AbsType, AbsUses' = AbsUses
  PROVE  UNCHANGED Registry!vars
BY DEF AbsType, AbsUses, Registry!vars

\* What a user is given is its type's ring in the map.
LEMMA UseBegins ==
  ASSUME Inv, NEW u \in Users, ~Using(u), Using(u)', inner, inner',
         \A v \in Users \ {u} : at'[v] = at[v] /\ want'[v] = want[v] /\ ring'[v] = ring[v]
  PROVE  Registry!Give(u, want'[u], ring'[u])
<1>1. \A v \in Users \ {u} : Using(v)' = Using(v)
  BY DEF Using
<1>2. AbsType' = [AbsType EXCEPT ![u] = want'[u]]
  BY <1>1 DEF AbsType
<1>3. AbsUses' = [AbsUses EXCEPT ![u] = ring'[u]]
  BY <1>1 DEF AbsUses
<1>4. AbsUses[u] = None
  BY DEF AbsUses
<1> QED
  BY <1>2, <1>3, <1>4 DEF Registry!Give, AbsType, AbsUses

(* A lookup that finds an entry is a use; one that does not, is nothing yet. *)
LEMMA LookupRefines ==
  ASSUME Inv, NEW u \in Users, NEW t \in Types, Lookup(u, t)
  PROVE  [Registry!Next]_(Registry!vars)
<1>1. /\ at[u] = "idle" /\ inner
      /\ at' = [at EXCEPT ![u] = IF emitters[t] = None THEN "missed" ELSE "got"]
      /\ want' = [want EXCEPT ![u] = t] /\ ring' = [ring EXCEPT ![u] = emitters[t]]
      /\ UNCHANGED <<emitters, inner>>
  BY DEF Lookup, Move, Key
<1>2. ~Using(u) /\ \A v \in Users \ {u} : at'[v] = at[v] /\ want'[v] = want[v] /\ ring'[v] = ring[v]
  BY <1>1 DEF Using, Inv, Shape
<1>3. at'[u] = (IF emitters[t] = None THEN "missed" ELSE "got")
      /\ want'[u] = t /\ ring'[u] = emitters[t]
  BY <1>1 DEF Inv, Shape
<1>4. CASE emitters[t] = None
  <2>1. \A v \in Users : Using(v)' = Using(v)
    BY <1>2, <1>3, <1>4 DEF Using
  <2>2. AbsType' = AbsType /\ AbsUses' = AbsUses
    BY <1>2, <2>1 DEF AbsType, AbsUses
  <2> QED
    BY <1>1, <2>2, RegistryStutters
<1>5. CASE emitters[t] # None
  <2>1. Using(u)'
    BY <1>3, <1>5 DEF Using
  <2>2. Registry!Give(u, t, emitters[t])
    BY <1>1, <1>2, <1>3, <2>1, UseBegins DEF Registry!Give
  <2>3. Registry!Get(u, t)
    BY <1>1, <1>5, <2>2 DEF Registry!Get
  <2> QED
    BY <2>3 DEF Registry!Next
<1> QED
  BY <1>4, <1>5

(* The insertion is the use: of the ring just made, if it is the first for  *)
(* the type, and else of the one that was first.                            *)
LEMMA InsertRefines ==
  ASSUME Inv, MapBorrowed, NEW u \in Users, Insert(u)
  PROVE  [Registry!Next]_(Registry!vars)
<1>1. /\ at[u] = "made" /\ at' = [at EXCEPT ![u] = "got"]
      /\ UNCHANGED <<inner, kind, want>> /\ inner
      /\ want[u] \in Types /\ ring[u] \in Rings /\ kind[ring[u]] = want[u]
  BY DEF Insert, Move, MapBorrowed, MapInv, Inv, Shape
<1>2. ~Using(u) /\ Using(u)' /\ \A v \in Users \ {u} : at'[v] = at[v]
  BY <1>1 DEF Using, Inv, Shape
<1>3. CASE InsertFirst(u)
  <2>1. /\ emitters[want[u]] = None /\ emitters' = [emitters EXCEPT ![want[u]] = ring[u]]
        /\ UNCHANGED ring
    BY <1>3 DEF InsertFirst, Found, Key
  <2>2. Registry!Give(u, want[u], ring[u])
    BY <1>1, <1>2, <2>1, UseBegins DEF Registry!Give
  <2>3. \A s \in Types : emitters[s] # ring[u]
    BY <1>1, <2>1, EmitterMapConstants DEF MapInv, Inv, Shape
  <2>4. Registry!GetFirst(u, want[u], ring[u])
    BY <2>1, <2>2, <2>3 DEF Registry!GetFirst
  <2> QED
    BY <1>1, <2>4 DEF Registry!Next
<1>4. CASE InsertLate(u)
  <2>1. /\ emitters[want[u]] # None /\ ring' = [ring EXCEPT ![u] = emitters[want[u]]]
        /\ UNCHANGED emitters
    BY <1>4 DEF InsertLate, Found, Key
  <2>2. ring'[u] = emitters[want[u]] /\ \A v \in Users \ {u} : ring'[v] = ring[v]
    BY <2>1 DEF Inv, Shape
  <2>3. Registry!Give(u, want[u], emitters[want[u]])
    BY <1>1, <1>2, <2>2, UseBegins DEF Registry!Give
  <2>4. Registry!Get(u, want[u])
    BY <2>1, <2>3 DEF Registry!Get
  <2> QED
    BY <1>1, <2>4 DEF Registry!Next
<1> QED
  BY <1>3, <1>4 DEF Insert

(* A use ends when the reference or the Publisher is given back.            *)
LEMMA DoneRefines ==
  ASSUME Inv, NEW u \in Users, Emitted(u) \/ Release(u)
  PROVE  [Registry!Next]_(Registry!vars)
<1>1. /\ at[u] \in {"got", "holds"} /\ at' = [at EXCEPT ![u] = "idle"]
      /\ ring' = [ring EXCEPT ![u] = None] /\ UNCHANGED <<emitters, inner, want>>
  BY DEF Emitted, Release, Move
<1>2. Using(u) /\ ~Using(u)' /\ \A v \in Users \ {u} : Using(v)' = Using(v) /\ ring'[v] = ring[v]
  BY <1>1 DEF Using, Inv, Shape
<1>3. AbsUses[u] # None
  BY <1>2 DEF AbsUses, Inv, MapInv
<1>4. AbsType' = [AbsType EXCEPT ![u] = None] /\ AbsUses' = [AbsUses EXCEPT ![u] = None]
  BY <1>1, <1>2 DEF AbsType, AbsUses
<1>5. Registry!Done(u)
  BY <1>1, <1>3, <1>4 DEF Registry!Done, AbsType, AbsUses
<1> QED
  BY <1>5 DEF Registry!Next

(* What a user builds, or clones, is its own business.                      *)
LEMMA AsideRefines ==
  ASSUME Inv, NEW u \in Users, Create(u) \/ Clone(u)
  PROVE  [Registry!Next]_(Registry!vars)
<1>1. /\ \/ at[u] = "missed" /\ at' = [at EXCEPT ![u] = "made"]
         \/ at[u] = "got" /\ at' = [at EXCEPT ![u] = "holds"] /\ UNCHANGED ring
      /\ UNCHANGED <<emitters, inner, want>>
      /\ \A v \in Users \ {u} : ring'[v] = ring[v]
  BY DEF Create, Clone, Move, Inv, Shape
<1>2. \A v \in Users : Using(v)' = Using(v) /\ (Using(v) => ring'[v] = ring[v])
  BY <1>1 DEF Using, Inv, Shape
<1>3. AbsType' = AbsType /\ AbsUses' = AbsUses
  BY <1>1, <1>2 DEF AbsType, AbsUses
<1> QED
  BY <1>1, <1>3, RegistryStutters

LEMMA RegistryStep ==
  ASSUME Inv, MapBorrowed, [Next]_vars
  PROVE  [Registry!Next]_(Registry!vars)
<1>1. CASE DropInner
  <2>1. Registry!Close
    BY <1>1 DEF DropInner, Registry!Close, Using
  <2> QED
    BY <2>1 DEF Registry!Next
<1>2. CASE UNCHANGED vars
  BY <1>2 DEF vars, Registry!vars, Using
<1> QED
  BY <1>1, <1>2, LookupRefines, InsertRefines, DoneRefines, AsideRefines DEF Next

(* get_or_insert_with is linearizable, for any number of users, types and   *)
(* rings: every use of a type is one step of EmitterRegistry, taken between *)
(* its lookup and its answer, while the bus is there (bus.rs:45-58).        *)
THEOREM MapKeepsPromise == Spec => KeepsPromise
<1>1. CountInv => Inv /\ MapBorrowed
  BY DEF CountInv
<1> QED
  BY CountInvInit, CountInvNext, RegistryInit, RegistryStep, <1>1, PTL
    DEF Spec, KeepsPromise, Registry!Spec
===============================================================================
