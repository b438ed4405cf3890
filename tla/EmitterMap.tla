------------------------------ MODULE EmitterMap ------------------------------
(***************************************************************************)
(* Inner.emitters (bus.rs): the map from event types to Publishers, filled  *)
(* on first use by any task, and the downcasts of emitter.rs.  The map is   *)
(* lock-free (papaya, external): get_or_insert_with looks a key up, builds  *)
(* a Publisher if it is missing, and inserts it unless another task was     *)
(* first; then it drops its own and takes the one it found.                 *)
(***************************************************************************)
EXTENDS Integers, FiniteSets

CONSTANTS Users,        \* tasks that bind, emit or ask for an emitter
          Types,        \* event types; a type is its own TypeId
          Rings,        \* bound: the rings gyre::channel may ever make
          None

ASSUME EmitterMapConstants == IsFiniteSet(Users) /\ None \notin Types \cup Rings

VARIABLES emitters,     \* the map; a type that is missing has None
          inner,        \* whether some Bus keeps Inner alive
          kind,         \* the E of each ring's Publisher<E>; None: not made yet
          publishers,   \* Publishers of each ring that exist
          at,           \* per user: "idle", "missed", "made", "got" (a reference
                        \* into the map) or "holds" (a Publisher of its own)
          want,         \* the type it works for
          ring          \* the ring it has made, got or holds

vars == <<emitters, inner, kind, publishers, at, want, ring>>

Init ==
  /\ emitters = [t \in Types |-> None]
  /\ inner = TRUE
  /\ kind = [r \in Rings |-> None]
  /\ publishers = [r \in Rings |-> 0]
  /\ at = [u \in Users |-> "idle"]
  /\ want = [u \in Users |-> None]
  /\ ring = [u \in Users |-> None]

Move(u, from, to) == at[u] = from /\ at' = [at EXCEPT ![u] = to]

\* Mutant: one key for all types.
KeyOfAll(t) == CHOOSE k \in Types : TRUE

(* TypeId::of::<E>() *)
Key(t) == t

(* bind, emit or to_emitter begins, for an event type. *)
Lookup(u, t) ==
  /\ inner
  /\ Move(u, "idle", IF emitters[Key(t)] = None THEN "missed" ELSE "got")
  /\ want' = [want EXCEPT ![u] = t]
  /\ ring' = [ring EXCEPT ![u] = emitters[Key(t)]]
  /\ UNCHANGED <<emitters, inner, kind, publishers>>

Create(u) ==
  /\ Move(u, "missed", "made")
  /\ \E r \in Rings :
       /\ kind[r] = None
       /\ kind' = [kind EXCEPT ![r] = want[u]]
       /\ publishers' = [publishers EXCEPT ![r] = 1]
       /\ ring' = [ring EXCEPT ![u] = r]
  /\ UNCHANGED <<emitters, inner, want>>

Found(u) == emitters[Key(want[u])]

\* Mutant: insert instead of get_or_insert_with.
InsertAnyway(u) ==
  /\ Move(u, "made", "got")
  /\ emitters' = [emitters EXCEPT ![Key(want[u])] = ring[u]]
  /\ UNCHANGED <<inner, kind, publishers, want, ring>>

\* Mutant: the Publisher that came too late is never dropped.
InsertLeaks(u) ==
  /\ Move(u, "made", "got")
  /\ IF Found(u) = None
       THEN emitters' = [emitters EXCEPT ![Key(want[u])] = ring[u]] /\ UNCHANGED ring
       ELSE ring' = [ring EXCEPT ![u] = Found(u)] /\ UNCHANGED emitters
  /\ UNCHANGED <<inner, kind, publishers, want>>

InsertFirst(u) ==
  /\ Found(u) = None
  /\ emitters' = [emitters EXCEPT ![Key(want[u])] = ring[u]]
  /\ UNCHANGED <<publishers, ring>>

InsertLate(u) ==
  /\ Found(u) # None
  /\ publishers' = [publishers EXCEPT ![ring[u]] = @ - 1]
  /\ ring' = [ring EXCEPT ![u] = Found(u)]
  /\ UNCHANGED emitters

Insert(u) ==
  /\ Move(u, "made", "got")
  /\ InsertFirst(u) \/ InsertLate(u)
  /\ UNCHANGED <<inner, kind, want>>

(* emit works through the reference and is done with it. *)
Emitted(u) ==
  /\ Move(u, "got", "idle")
  /\ ring' = [ring EXCEPT ![u] = None]
  /\ UNCHANGED <<emitters, inner, kind, publishers, want>>

(* bind and to_emitter clone the Publisher ... *)
Clone(u) ==
  /\ Move(u, "got", "holds")
  /\ publishers' = [publishers EXCEPT ![ring[u]] = @ + 1]
  /\ UNCHANGED <<emitters, inner, kind, want, ring>>

\* Mutant: a Publisher is dropped twice.
ReleaseTwice(u) ==
  /\ Move(u, "holds", "idle")
  /\ publishers' = [publishers EXCEPT ![ring[u]] = @ - 2]
  /\ ring' = [ring EXCEPT ![u] = None]
  /\ UNCHANGED <<emitters, inner, kind, want>>

(* ... which its launcher or the program drops one day. *)
Release(u) ==
  /\ Move(u, "holds", "idle")
  /\ publishers' = [publishers EXCEPT ![ring[u]] = @ - 1]
  /\ ring' = [ring EXCEPT ![u] = None]
  /\ UNCHANGED <<emitters, inner, kind, want>>

(* The last Bus goes, when no call borrows it, and with it the map. *)
DropInner ==
  /\ inner /\ \A u \in Users : at[u] \in {"idle", "holds"}
  /\ inner' = FALSE
  /\ publishers' = [r \in Rings |->
       IF \E t \in Types : emitters[t] = r THEN publishers[r] - 1 ELSE publishers[r]]
  /\ UNCHANGED <<emitters, kind, at, want, ring>>

Next ==
  \/ DropInner
  \/ \E u \in Users :
       \/ \E t \in Types : Lookup(u, t)
       \/ Create(u) \/ Insert(u) \/ Emitted(u) \/ Clone(u) \/ Release(u)

Spec == Init /\ [][Next]_vars

-----------------------------------------------------------------------------
TypeOK ==
  /\ emitters \in [Types -> Rings \cup {None}]
  /\ inner \in BOOLEAN
  /\ kind \in [Rings -> Types \cup {None}]
  /\ publishers \in [Rings -> Nat]
  /\ at \in [Users -> {"idle", "missed", "made", "got", "holds"}]
  /\ want \in [Users -> Types \cup {None}]
  /\ ring \in [Users -> Rings \cup {None}]

Using(u) == at[u] \in {"got", "holds"}

(* Whoever works for one event type works on one ring, however their first  *)
(* uses of the type overlapped: else a listener would wait for ever on a    *)
(* ring that nobody publishes to (bus.rs:45-58).                            *)
OneRing ==
  \A u, v \in Users : Using(u) /\ Using(v) /\ want[u] = want[v] => ring[u] = ring[v]

(* The downcast of as_emitter() never fails: the Publisher found under a    *)
(* type is of that type (emitter.rs:38-40, 63-68).                          *)
DowncastSucceeds ==
  \A u \in Users : Using(u) => ring[u] # None /\ kind[ring[u]] = want[u]

(* A ring can end: its Publishers are those in the map and those that users *)
(* have.  One left over by a race would keep a stream open for ever, and so *)
(* every drain (bus.rs:52-56).                                              *)
Holders(r) == {u \in Users : at[u] \in {"made", "holds"} /\ ring[u] = r}

Entries(r) == IF inner /\ \E t \in Types : emitters[t] = r THEN 1 ELSE 0

NoStrayPublisher ==
  \A r \in Rings : publishers[r] = Cardinality(Holders(r)) + Entries(r)

(* What OneRing and DowncastSucceeds rest on: an entry of the map is never  *)
(* replaced, is of its type, and is what every user of the type gets.       *)
MapInv ==
  /\ \A t \in Types : emitters[t] # None => kind[emitters[t]] = t
  /\ \A u \in Users : Using(u) => want[u] \in Types /\ ring[u] = emitters[want[u]] /\ ring[u] # None
  /\ \A u \in Users : at[u] = "missed" => want[u] \in Types
  /\ \A u \in Users : at[u] = "made" => want[u] \in Types /\ ring[u] # None /\ kind[ring[u]] = want[u]

(* get_or_insert_with is linearizable: whatever lookups, insertions and the *)
(* end of the bus overlap, every use of a type takes effect as one step of  *)
(* a table that gives the type its ring, for good, while the bus is there   *)
(* (bus.rs:45-58).                                                          *)
Registry == INSTANCE EmitterRegistry WITH
  ringOf <- emitters,
  open   <- inner,
  type   <- [u \in Users |-> IF Using(u) THEN want[u] ELSE None],
  uses   <- [u \in Users |-> IF Using(u) THEN ring[u] ELSE None]

KeepsPromise == Registry!Spec
===============================================================================
