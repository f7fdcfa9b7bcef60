------------------------- MODULE ComObjects_proofs -------------------------
(***************************************************************************)
(* What holds of ComObjects for any number of threads, objects and         *)
(* pointers.                                                               *)
(*                                                                         *)
(* NoDangling is about each object, StaysLoaded about all of them; both    *)
(* come down to counting.  ref_count_ is the number of pointers to the     *)
(* object, so that the one who takes it to zero held the last of them; and *)
(* object_counter is the number of objects counted, plus the locks.  The   *)
(* rest of ComInv says what each thread holds at each of its steps, and    *)
(* that an object not counted yet is known to its maker alone.             *)
(***************************************************************************)
EXTENDS ComObjects, FiniteSetTheorems, TLAPS

PointersTo(o) == {p \in Pointers : pointsTo[p] = o}
CountedObjects == {o \in Objects : Counted(o)}

\* Where a thread is in its call, also while it deletes an object.
Point(t) == IF pc[t] \in {"uncount", "destroy"} THEN after[t] ELSE pc[t]

HasObject == {"count", "query", "pass", "drop interface", "drop object"}
HasInterface == {"pass", "drop interface"}

RefsExact == \A o \in Objects : refs[o] = Cardinality(PointersTo(o))

CountExact == count = locks + Cardinality(CountedObjects)

\* A pointer points to a counted object, but for that of a maker that has not
\* counted its object yet, which nobody else points to.
PointersLive ==
    \A p \in Pointers :
        /\ pointsTo[p] # Nothing => Exists(pointsTo[p])
        /\ pointsTo[p] # Nothing /\ (\A t \in Threads : pc[t] = "count" => p # Obj(t))
              => state[pointsTo[p]] = "live"

CountingOwn ==
    \A t \in Threads : pc[t] = "count" =>
        /\ state[Mine(t)] = "raw"
        /\ \A p \in Pointers : pointsTo[p] = Mine(t) => p = Obj(t)

\* What a thread has on its stack.
StackKept ==
    \A t \in Threads :
        /\ Mine(t) # Nothing <=> Point(t) \in HasObject
        /\ pointsTo[Itf(t)] # Nothing <=> Point(t) \in HasInterface

\* Each thread that deletes an object deletes one of its own.
DeletingOwn ==
    \A t \in Threads :
        /\ pc[t] = "uncount" => dying[t] \in Objects /\ state[dying[t]] = "dying"
        /\ pc[t] = "destroy" => dying[t] \in Objects /\ state[dying[t]] = "gone"
        /\ \A u \in Threads \ {t} :
              {pc[t], pc[u]} \subseteq {"uncount", "destroy"} => dying[t] # dying[u]

\* Of the caller's pointers, those to be filled are null and the others not.
PlacesKept ==
    \A t \in Threads :
        /\ \A p \in into[t] : pointsTo[p] = Nothing
        /\ \A p \in got[t] : pointsTo[p] # Nothing
        /\ \A u \in Threads \ {t} : into[t] \cap into[u] = {} /\ got[t] \cap got[u] = {}

\* No object is left that nobody points to, except to delete it.
NoneForgotten ==
    \A o \in Objects :
        /\ Exists(o) => refs[o] > 0
        /\ state[o] \in {"dying", "gone"} =>
              \E t \in Threads : pc[t] \in {"uncount", "destroy"} /\ dying[t] = o

CountInv ==
    /\ RefsExact
    /\ CountExact
    /\ PointersLive
    /\ CountingOwn
    /\ DeletingOwn
    /\ NoneForgotten

ComInv == TypeOK /\ CountInv /\ StackKept /\ PlacesKept

-----------------------------------------------------------------------------
(* Pointers and counting. *)

USE DEF ProgramPoints

\* Names of pointers are different, and there are finitely many.
LEMMA PointerNames ==
    /\ IsFiniteSet(Pointers)
    /\ \A t \in Threads : Obj(t) \in Pointers \ Outside /\ Itf(t) \in Pointers \ Outside
    /\ \A t, u \in Threads : Obj(t) # Itf(u)
    /\ \A t, u \in Threads : t # u => Obj(t) # Obj(u) /\ Itf(t) # Itf(u)
    /\ Outside \subseteq Pointers
    /\ \A p \in Pointers \ Outside : \E t \in Threads : p = Obj(t) \/ p = Itf(t)
<1>1. IsFiniteSet({"object", "interface"})
  <2>1. IsFiniteSet({"object"}) /\ IsFiniteSet({"interface"})
    BY FS_Singleton
  <2>2. IsFiniteSet({"object"} \cup {"interface"})
    BY <2>1, FS_Union
  <2>3. {"object"} \cup {"interface"} = {"object", "interface"}
    OBVIOUS
  <2>. QED
    BY <2>2, <2>3
<1>2. IsFiniteSet(Stack)
  BY <1>1, FS_Product, ComAssumption DEF Stack
<1>3. IsFiniteSet(Pointers)
  BY <1>2, FS_Union, ComAssumption DEF Pointers
<1>4. \A t \in Threads : Obj(t) \in Stack /\ Itf(t) \in Stack
  BY DEF Stack, Obj, Itf
<1>5. \A t, u \in Threads : Obj(t) # Itf(u)
  BY DEF Obj, Itf
<1>6. \A t, u \in Threads : t # u => Obj(t) # Obj(u) /\ Itf(t) # Itf(u)
  BY DEF Obj, Itf
<1>7. \A p \in Stack : \E t \in Threads : p = Obj(t) \/ p = Itf(t)
  BY DEF Stack, Obj, Itf
<1>8. Stack \cap Outside = {} /\ Pointers = Stack \cup Outside
  BY ComAssumption DEF Pointers
<1>. QED
  BY <1>3, <1>4, <1>5, <1>6, <1>7, <1>8

LEMMA StillPositive ==
    \A n \in Nat : n > 0 => n - 1 \in Nat /\ (n # 1 => n - 1 > 0)
  OBVIOUS

LEMMA FinitePointersTo ==
    ASSUME NEW o
    PROVE  /\ IsFiniteSet(PointersTo(o))
           /\ Cardinality(PointersTo(o)) \in Nat
           /\ Cardinality(PointersTo(o)) = 0 <=> PointersTo(o) = {}
<1>1. IsFiniteSet(PointersTo(o))
  BY PointerNames, FS_Subset DEF PointersTo
<1>. QED
  BY <1>1, FS_CardinalityType, FS_EmptySet

\* One more pointer to o.
LEMMA OneMore ==
    ASSUME pointsTo \in [Pointers -> Objects \cup {Nothing}],
           NEW p \in Pointers, pointsTo[p] = Nothing,
           NEW o \in Objects,
           pointsTo' = [pointsTo EXCEPT ![p] = o],
           NEW x \in Objects
    PROVE  Cardinality(PointersTo(x)') =
              IF x = o THEN Cardinality(PointersTo(x)) + 1 ELSE Cardinality(PointersTo(x))
<1>0. Nothing \notin Objects
  BY ComAssumption
<1>1. CASE x = o
  <2>1. PointersTo(o)' = PointersTo(o) \cup {p} /\ p \notin PointersTo(o)
    BY <1>0 DEF PointersTo
  <2>. QED
    BY <1>1, <2>1, FinitePointersTo, FS_AddElement
<1>2. CASE x # o
  <2>1. PointersTo(x)' = PointersTo(x)
    BY <1>0, <1>2 DEF PointersTo
  <2>. QED
    BY <1>2, <2>1
<1>. QED
  BY <1>1, <1>2

\* One pointer less to o.
LEMMA OneLess ==
    ASSUME pointsTo \in [Pointers -> Objects \cup {Nothing}],
           NEW p \in Pointers, pointsTo[p] # Nothing,
           pointsTo' = [pointsTo EXCEPT ![p] = Nothing],
           NEW x \in Objects
    PROVE  Cardinality(PointersTo(x)') =
              IF x = pointsTo[p] THEN Cardinality(PointersTo(x)) - 1
              ELSE Cardinality(PointersTo(x))
<1>0. Nothing \notin Objects
  BY ComAssumption
<1>1. CASE x = pointsTo[p]
  <2>1. PointersTo(x)' = PointersTo(x) \ {p} /\ p \in PointersTo(x)
    BY <1>0, <1>1 DEF PointersTo
  <2>. QED
    BY <1>1, <2>1, FinitePointersTo, FS_RemoveElement
<1>2. CASE x # pointsTo[p]
  <2>1. PointersTo(x)' = PointersTo(x)
    BY <1>0, <1>2 DEF PointersTo
  <2>. QED
    BY <1>2, <2>1
<1>. QED
  BY <1>1, <1>2

\* A pointer that is alone.
LEMMA LastPointer ==
    ASSUME NEW o, NEW p \in PointersTo(o), Cardinality(PointersTo(o)) = 1
    PROVE  \A q \in PointersTo(o) : q = p
<1>1. /\ IsFiniteSet(PointersTo(o) \ {p})
      /\ Cardinality(PointersTo(o) \ {p}) = Cardinality(PointersTo(o)) - 1
  BY FinitePointersTo, FS_RemoveElement
<1>2. Cardinality(PointersTo(o) \ {p}) = 0
  BY <1>1
<1>3. PointersTo(o) \ {p} = {}
  BY <1>1, <1>2, FS_EmptySet
<1>. QED
  BY <1>3

\* The objects counted: none if the counter shows no more than the locks.
LEMMA FiniteCounted ==
    /\ IsFiniteSet(CountedObjects)
    /\ Cardinality(CountedObjects) \in Nat
    /\ Cardinality(CountedObjects) = 0 <=> CountedObjects = {}
<1>1. IsFiniteSet(CountedObjects)
  BY ComAssumption, FS_Subset DEF CountedObjects
<1>. QED
  BY <1>1, FS_CardinalityType, FS_EmptySet

LEMMA SameCounted ==
    ASSUME CountExact, UNCHANGED <<count, locks>>,
           \A x \in Objects : Counted(x)' <=> Counted(x)
    PROVE  CountExact'
<1>1. CountedObjects' = CountedObjects
  BY DEF CountedObjects
<1>. QED
  BY <1>1 DEF CountExact

-----------------------------------------------------------------------------
(* What the three kinds of steps do: those that change no pointer, those   *)
(* that add one, and those that take one away.                             *)

QuietPoints == {"idle", "construct", "query", "pass", "drop interface", "drop object",
                "next", "give up"}

\* No thread enters or leaves the counting or the deleting of an object.
Quietly == \A t \in Threads : pc'[t] # pc[t] => {pc[t], pc'[t]} \subseteq QuietPoints

LEMMA NoPointerChanges ==
    ASSUME CountInv, Quietly, UNCHANGED <<objects, count, locks, pointsTo, release>>
    PROVE  CountInv'
<1>. USE DEF CountInv, objects, release
<1>1. RefsExact' /\ CountExact'
  BY DEF RefsExact, CountExact, PointersTo, CountedObjects, Counted
<1>2. \A t \in Threads :
        /\ pc'[t] = "count" <=> pc[t] = "count"
        /\ pc'[t] = "uncount" <=> pc[t] = "uncount"
        /\ pc'[t] = "destroy" <=> pc[t] = "destroy"
  BY DEF Quietly, QuietPoints
<1>3. PointersLive'
  BY <1>2 DEF PointersLive, Exists
<1>4. CountingOwn'
  BY <1>2 DEF CountingOwn, Mine
<1>5. DeletingOwn'
  BY <1>2 DEF DeletingOwn
<1>6. NoneForgotten'
  BY <1>2 DEF NoneForgotten, Exists
<1>. QED
  BY <1>1, <1>3, <1>4, <1>5, <1>6

LEMMA PointerAdded ==
    ASSUME TypeOK, CountInv, StackKept, Quietly,
           NEW p \in Pointers, pointsTo[p] = Nothing,
           NEW o \in Objects, state[o] = "live",
           AddRef(p, o), UNCHANGED <<state, kind, count, locks, release>>
    PROVE  CountInv' /\ refs' \in [Objects -> Nat]
<1>. USE DEF CountInv, release
<1>0. /\ pointsTo \in [Pointers -> Objects \cup {Nothing}]
      /\ refs \in [Objects -> Nat]
      /\ pointsTo' = [pointsTo EXCEPT ![p] = o]
      /\ refs' = [refs EXCEPT ![o] = refs[o] + 1]
      /\ Nothing \notin Objects
  BY ComAssumption DEF TypeOK, AddRef, Referenced
<1>1. RefsExact'
  <2>. SUFFICES ASSUME NEW x \in Objects
                PROVE  refs'[x] = Cardinality(PointersTo(x)')
    BY DEF RefsExact
  <2>1. refs[x] = Cardinality(PointersTo(x))
    BY DEF RefsExact
  <2>2. refs'[x] = IF x = o THEN refs[x] + 1 ELSE refs[x]
    BY <1>0
  <2>. QED
    BY <1>0, <2>1, <2>2, OneMore
<1>2. CountExact'
  BY SameCounted DEF Counted
<1>3. \A t \in Threads :
        /\ pc'[t] = "count" <=> pc[t] = "count"
        /\ pc'[t] = "uncount" <=> pc[t] = "uncount"
        /\ pc'[t] = "destroy" <=> pc[t] = "destroy"
  BY DEF Quietly, QuietPoints
<1>4. PointersLive'
  BY <1>0, <1>3 DEF PointersLive, Exists
<1>5. CountingOwn'
  <2>. SUFFICES ASSUME NEW t \in Threads, pc[t] = "count"
                PROVE  /\ state'[Mine(t)'] = "raw"
                       /\ \A q \in Pointers : pointsTo'[q] = Mine(t)' => q = Obj(t)
    BY <1>3 DEF CountingOwn
  <2>1. /\ state[Mine(t)] = "raw"
        /\ \A q \in Pointers : pointsTo[q] = Mine(t) => q = Obj(t)
    BY DEF CountingOwn
  <2>2. Mine(t) # Nothing
    BY DEF StackKept, Point, HasObject
  <2>3. Obj(t) # p /\ Mine(t) # o /\ Obj(t) \in Pointers
    BY <2>1, <2>2, PointerNames DEF Mine
  <2>4. Mine(t)' = Mine(t)
    BY <1>0, <2>3 DEF Mine
  <2>. QED
    BY <1>0, <2>1, <2>3, <2>4
<1>6. DeletingOwn'
  BY <1>3 DEF DeletingOwn
<1>7. NoneForgotten'
  BY <1>0, <1>3 DEF NoneForgotten, Exists
<1>8. refs' \in [Objects -> Nat]
  BY <1>0
<1>. QED
  BY <1>1, <1>2, <1>4, <1>5, <1>6, <1>7, <1>8

\* A pointer to a counted object is dropped by a thread that does nothing else.
LEMMA PointerDropped ==
    ASSUME TypeOK, CountInv, StackKept,
           NEW t \in Threads, pc[t] \in QuietPoints,
           NEW p \in Pointers, pointsTo[p] # Nothing,
           \A u \in Threads : pc[u] = "count" => p # Obj(u),
           NEW next \in {"idle", "drop object", "next", "give up"},
           Release(t, p, next)
    PROVE  /\ CountInv' /\ refs' \in [Objects -> Nat]
           /\ Point(t)' = next
           /\ \A u \in Threads \ {t} : Point(u)' = Point(u)
           /\ state' \in [Objects -> {"free", "raw", "live", "dying", "gone"}]
           /\ dying' \in [Threads -> Objects \cup {Nothing}]
           /\ after' \in [Threads -> {"idle", "drop object", "next", "give up"}]
           /\ pc' \in [Threads -> ProgramPoints]
<1>. DEFINE o == pointsTo[p]
            Last == refs[o] = 1
<1>0. /\ pointsTo \in [Pointers -> Objects \cup {Nothing}]
      /\ refs \in [Objects -> Nat]
      /\ pointsTo' = [pointsTo EXCEPT ![p] = Nothing]
      /\ refs' = [refs EXCEPT ![o] = @ - 1]
      /\ Nothing \notin Objects
      /\ o \in Objects
  BY ComAssumption DEF TypeOK, Release
<1>1. /\ state \in [Objects -> {"free", "raw", "live", "dying", "gone"}]
      /\ dying \in [Threads -> Objects \cup {Nothing}]
      /\ after \in [Threads -> {"idle", "drop object", "next", "give up"}]
      /\ pc \in [Threads -> ProgramPoints]
  BY DEF TypeOK
<1>2. state[o] = "live"
  BY DEF CountInv, PointersLive
<1>3. /\ UNCHANGED <<count, locks>>
      /\ Last => /\ state' = [state EXCEPT ![o] = "dying"]
                 /\ dying' = [dying EXCEPT ![t] = o]
                 /\ after' = [after EXCEPT ![t] = next]
                 /\ pc' = [pc EXCEPT ![t] = "uncount"]
      /\ ~Last => /\ state' = state /\ dying' = dying /\ after' = after
                  /\ pc' = [pc EXCEPT ![t] = next]
  BY DEF Release, Goto, release
<1>4. \A x \in Objects : refs[x] = Cardinality(PointersTo(x))
  BY DEF CountInv, RefsExact
<1>5. RefsExact'
  <2>. SUFFICES ASSUME NEW x \in Objects
                PROVE  refs'[x] = Cardinality(PointersTo(x)')
    BY DEF RefsExact
  <2>1. refs'[x] = IF x = o THEN refs[x] - 1 ELSE refs[x]
    BY <1>0
  <2>. QED
    BY <1>0, <1>4, <2>1, OneLess
<1>6. Last => \A q \in Pointers : pointsTo[q] = o => q = p
  <2>1. p \in PointersTo(o)
    BY DEF PointersTo
  <2>2. Last => Cardinality(PointersTo(o)) = 1
    BY <1>0, <1>4
  <2>3. Last => \A q \in PointersTo(o) : q = p
    BY <2>1, <2>2, LastPointer
  <2>. QED
    BY <2>3 DEF PointersTo
<1>7. CountExact'
  BY <1>1, <1>2, <1>3, SameCounted DEF CountInv, Counted
<1>8. /\ pc'[t] \in {"uncount", next}
      /\ \A u \in Threads \ {t} :
           pc'[u] = pc[u] /\ dying'[u] = dying[u] /\ after'[u] = after[u]
  BY <1>1, <1>3
<1>9. \A u \in Threads : pc'[u] = "count" <=> pc[u] = "count"
  BY <1>8 DEF QuietPoints
<1>10. PointersLive'
  <2>. SUFFICES ASSUME NEW q \in Pointers, pointsTo'[q] # Nothing
                PROVE  /\ Exists(pointsTo[q])'
                       /\ (\A u \in Threads : pc[u] = "count" => q # Obj(u))
                              => state'[pointsTo[q]'] = "live"
    BY <1>9 DEF PointersLive
  <2>1. q # p /\ pointsTo'[q] = pointsTo[q] /\ pointsTo[q] \in Objects
    BY <1>0
  <2>2. state'[pointsTo[q]] = state[pointsTo[q]]
    BY <1>1, <1>3, <1>6, <2>1
  <2>. QED
    BY <2>1, <2>2 DEF CountInv, PointersLive, Exists
<1>11. CountingOwn'
  <2>. SUFFICES ASSUME NEW u \in Threads, pc[u] = "count"
                PROVE  /\ state'[Mine(u)'] = "raw"
                       /\ \A q \in Pointers : pointsTo'[q] = Mine(u)' => q = Obj(u)
    BY <1>9 DEF CountingOwn
  <2>1. /\ state[Mine(u)] = "raw"
        /\ \A q \in Pointers : pointsTo[q] = Mine(u) => q = Obj(u)
    BY DEF CountInv, CountingOwn
  <2>2. Mine(u) # Nothing /\ Obj(u) \in Pointers
    BY PointerNames DEF StackKept, Point, HasObject
  <2>3. Mine(u) \in Objects /\ Mine(u)' = Mine(u) /\ Mine(u) # o
    BY <1>0, <1>2, <2>1, <2>2 DEF Mine
  <2>4. state'[Mine(u)] = "raw"
    BY <1>1, <1>3, <2>1, <2>3
  <2>. QED
    BY <1>0, <2>1, <2>2, <2>3, <2>4
<1>12. DeletingOwn'
  <2>1. \A u \in Threads :
           /\ pc[u] = "uncount" => dying[u] \in Objects /\ state[dying[u]] = "dying"
           /\ pc[u] = "destroy" => dying[u] \in Objects /\ state[dying[u]] = "gone"
           /\ \A w \in Threads \ {u} :
                {pc[u], pc[w]} \subseteq {"uncount", "destroy"} => dying[u] # dying[w]
    BY DEF CountInv, DeletingOwn
  <2>2. \A u \in Threads \ {t} : pc[u] \in {"uncount", "destroy"} =>
            dying[u] # o /\ state'[dying[u]] = state[dying[u]]
    BY <1>1, <1>2, <1>3, <2>1
  <2>3. pc'[t] = "uncount" => dying'[t] = o /\ o \in Objects /\ state'[o] = "dying"
    BY <1>0, <1>1, <1>3
  <2>4. pc'[t] # "destroy" /\ next \notin {"uncount", "destroy"}
    BY <1>8
  <2>5. ASSUME NEW u \in Threads
        PROVE  /\ pc'[u] = "uncount" => dying'[u] \in Objects /\ state'[dying'[u]] = "dying"
               /\ pc'[u] = "destroy" => dying'[u] \in Objects /\ state'[dying'[u]] = "gone"
    BY <1>8, <2>1, <2>2, <2>3, <2>4
  <2>6. ASSUME NEW u \in Threads, NEW w \in Threads \ {u},
               {pc'[u], pc'[w]} \subseteq {"uncount", "destroy"}
        PROVE  dying'[u] # dying'[w]
    <3>1. CASE u = t
      BY <1>8, <2>2, <2>3, <2>4, <2>6, <3>1
    <3>2. CASE w = t
      BY <1>8, <2>2, <2>3, <2>4, <2>6, <3>2
    <3>3. CASE u # t /\ w # t
      <4>1. /\ pc'[u] = pc[u] /\ dying'[u] = dying[u]
            /\ pc'[w] = pc[w] /\ dying'[w] = dying[w]
        BY <1>8, <3>3
      <4>2. {pc[u], pc[w]} \subseteq {"uncount", "destroy"}
        BY <2>6, <4>1
      <4>. QED
        BY <2>1, <4>1, <4>2
    <3>. QED
      BY <3>1, <3>2, <3>3
  <2>. QED
    BY <2>5, <2>6 DEF DeletingOwn
<1>13. NoneForgotten'
  <2>1. \A x \in Objects :
           /\ Exists(x) => refs[x] > 0
           /\ state[x] \in {"dying", "gone"} =>
                \E u \in Threads : pc[u] \in {"uncount", "destroy"} /\ dying[u] = x
    BY DEF CountInv, NoneForgotten
  <2>2. ASSUME NEW x \in Objects, Exists(x)'
        PROVE  refs'[x] > 0
    <3>1. refs[x] \in Nat /\ (x # o => refs'[x] = refs[x]) /\ (x = o => refs'[x] = refs[x] - 1)
      BY <1>0
    <3>2. Exists(x) /\ (x = o => ~Last)
      BY <1>1, <1>2, <1>3, <2>2 DEF Exists
    <3>3. refs[x] > 0 /\ (x = o => refs[x] # 1)
      BY <2>1, <3>2
    <3>4. CASE x = o
      BY <3>1, <3>3, <3>4, StillPositive
    <3>5. CASE x # o
      BY <3>1, <3>3, <3>5
    <3>. QED
      BY <3>4, <3>5
  <2>3. ASSUME NEW x \in Objects, state'[x] \in {"dying", "gone"}
        PROVE  \E u \in Threads : pc'[u] \in {"uncount", "destroy"} /\ dying'[u] = x
    <3>1. CASE x = o
      BY <1>1, <1>2, <1>3, <2>3, <3>1
    <3>2. CASE x # o
      <4>1. state[x] \in {"dying", "gone"}
        BY <1>1, <1>3, <2>3, <3>2
      <4>2. PICK u \in Threads : pc[u] \in {"uncount", "destroy"} /\ dying[u] = x
        BY <2>1, <4>1
      <4>3. u # t
        BY <4>2 DEF QuietPoints
      <4>. QED
        BY <1>8, <4>2, <4>3
    <3>. QED
      BY <3>1, <3>2
  <2>. QED
    BY <2>2, <2>3 DEF NoneForgotten
<1>14. Point(t)' = next /\ \A u \in Threads \ {t} : Point(u)' = Point(u)
  BY <1>1, <1>3, <1>8 DEF Point
<1>15. /\ state' \in [Objects -> {"free", "raw", "live", "dying", "gone"}]
       /\ dying' \in [Threads -> Objects \cup {Nothing}]
       /\ after' \in [Threads -> {"idle", "drop object", "next", "give up"}]
       /\ pc' \in [Threads -> ProgramPoints]
  <2>1. state' \in [Objects -> {"free", "raw", "live", "dying", "gone"}]
    BY <1>1, <1>3
  <2>2. dying' \in [Threads -> Objects \cup {Nothing}]
    BY <1>0, <1>1, <1>3
  <2>3. after' \in [Threads -> {"idle", "drop object", "next", "give up"}]
    BY <1>1, <1>3
  <2>4. pc' = [pc EXCEPT ![t] = "uncount"] \/ pc' = [pc EXCEPT ![t] = next]
    BY <1>3
  <2>5. pc' \in [Threads -> ProgramPoints]
    BY <1>1, <2>4
  <2>. QED
    BY <2>1, <2>2, <2>3, <2>5
<1>16. refs' \in [Objects -> Nat]
  <2>1. refs[o] > 0 /\ refs[o] \in Nat
    BY <1>0, <1>2 DEF CountInv, NoneForgotten, Exists
  <2>2. refs[o] - 1 \in Nat
    BY <2>1, StillPositive
  <2>. QED
    BY <1>0, <2>2
<1>. HIDE DEF o, Last
<1>. QED
  BY <1>16, <1>5, <1>7, <1>10, <1>11, <1>12, <1>13, <1>14, <1>15 DEF CountInv

-----------------------------------------------------------------------------
(* The steps. *)

LEMMA BeginKeeps == ASSUME ComInv, NEW t \in Threads, Begin(t) PROVE ComInv'
<1>. USE DEF ComInv, objects, release
<1>1. TypeOK'
  <2>1. \A k : Makes(k) \subseteq Kinds
    BY DEF Makes, Kinds
  <2>2. making' \in [Threads -> Kinds] /\ via' \in [Threads -> Outside \cup {Nothing}]
    <3>1. CASE (\E k \in Factories : making' = [making EXCEPT ![t] = k]) /\ UNCHANGED via
      BY <3>1 DEF Factories, Kinds, TypeOK
    <3>2. CASE \E p \in Held : \E k \in Makes(kind[pointsTo[p]]) :
                  /\ making' = [making EXCEPT ![t] = k]
                  /\ via' = [via EXCEPT ![t] = p]
      <4>0. PICK p \in Held : \E k \in Makes(kind[pointsTo[p]]) :
                  /\ making' = [making EXCEPT ![t] = k]
                  /\ via' = [via EXCEPT ![t] = p]
        BY <3>2
      <4>1. PICK k \in Makes(kind[pointsTo[p]]) :
                  /\ making' = [making EXCEPT ![t] = k]
                  /\ via' = [via EXCEPT ![t] = p]
        BY <4>0
      <4>2. p \in Outside /\ k \in Kinds
        BY <2>1 DEF Held
      <4>. QED
        BY <4>1, <4>2 DEF TypeOK
    <3>3. \/ (\E k \in Factories : making' = [making EXCEPT ![t] = k]) /\ UNCHANGED via
          \/ \E p \in Held : \E k \in Makes(kind[pointsTo[p]]) :
                /\ making' = [making EXCEPT ![t] = k]
                /\ via' = [via EXCEPT ![t] = p]
      BY DEF Begin
    <3>. QED
      BY <3>1, <3>2, <3>3
  <2>3. into' \in [Threads -> SUBSET Outside]
    BY DEF Begin, Empty, TypeOK
  <2>4. pc' = [pc EXCEPT ![t] = "construct"]
    BY DEF Begin, Goto
  <2>. QED
    BY <2>2, <2>3, <2>4 DEF Begin, TypeOK
<1>2. CountInv'
  <2>1. Quietly
    BY DEF Begin, Goto, Quietly, QuietPoints, TypeOK
  <2>. QED
    BY <2>1, NoPointerChanges DEF Begin
<1>3. StackKept'
  BY DEF Begin, Goto, StackKept, Point, HasObject, HasInterface, Mine, TypeOK
<1>4. PlacesKept'
  <2>1. PICK places \in SUBSET Empty : into' = [into EXCEPT ![t] = places]
    BY DEF Begin
  <2>2. /\ \A p \in places : pointsTo[p] = Nothing
        /\ \A u \in Threads : places \cap into[u] = {}
    BY <2>1 DEF Empty
  <2>3. \A u \in Threads : into'[u] = IF u = t THEN places ELSE into[u]
    BY <2>1 DEF TypeOK
  <2>4. UNCHANGED <<pointsTo, got>>
    BY DEF Begin
  <2>. QED
    BY <2>2, <2>3, <2>4 DEF PlacesKept
<1>. QED
  BY <1>1, <1>2, <1>3, <1>4

LEMMA HostReleasesKeeps == ASSUME ComInv, NEW t \in Threads, HostReleases(t) PROVE ComInv'
<1>. USE DEF ComInv, call
<1>1. PICK p \in Resting : Release(t, p, "idle")
  BY DEF HostReleases
<1>2. /\ p \in Outside /\ p \in Pointers /\ pointsTo[p] # Nothing
      /\ \A u \in Threads : p \notin got[u] /\ p # Obj(u) /\ p # Itf(u)
      /\ pc[t] \in QuietPoints /\ pc[t] = "idle"
      /\ UNCHANGED call
  BY PointerNames DEF Resting, Held, HostReleases, QuietPoints
<1>3. /\ CountInv' /\ refs' \in [Objects -> Nat]
      /\ Point(t)' = "idle"
      /\ \A u \in Threads \ {t} : Point(u)' = Point(u)
      /\ state' \in [Objects -> {"free", "raw", "live", "dying", "gone"}]
      /\ dying' \in [Threads -> Objects \cup {Nothing}]
      /\ after' \in [Threads -> {"idle", "drop object", "next", "give up"}]
      /\ pc' \in [Threads -> ProgramPoints]
  BY <1>1, <1>2, PointerDropped
<1>4. pointsTo' = [pointsTo EXCEPT ![p] = Nothing] /\ UNCHANGED <<kind, count, locks>>
  BY <1>1 DEF Release
<1>5. TypeOK'
  BY <1>2, <1>3, <1>4 DEF TypeOK
<1>6. StackKept'
  <2>1. Point(t) = "idle"
    BY <1>2 DEF Point
  <2>2. \A u \in Threads : Point(u)' = Point(u)
    BY <1>3, <2>1
  <2>3. \A u \in Threads :
           pointsTo'[Obj(u)] = pointsTo[Obj(u)] /\ pointsTo'[Itf(u)] = pointsTo[Itf(u)]
    BY <1>2, <1>4, PointerNames DEF TypeOK
  <2>. QED
    BY <2>2, <2>3 DEF StackKept, Mine
<1>7. PlacesKept'
  <2>1. \A q \in Outside : pointsTo'[q] = IF q = p THEN Nothing ELSE pointsTo[q]
    BY <1>4, PointerNames DEF TypeOK
  <2>2. \A u \in Threads : into[u] \subseteq Outside /\ got[u] \subseteq Outside
    BY DEF TypeOK
  <2>. QED
    BY <1>2, <2>1, <2>2 DEF PlacesKept
<1>. QED
  BY <1>3, <1>5, <1>6, <1>7

LEMMA HostCopiesKeeps == ASSUME ComInv, HostCopies PROVE ComInv'
<1>. USE DEF ComInv, call, release
<1>1. PICK p \in Held, q \in Empty : AddRef(q, pointsTo[p])
  BY DEF HostCopies
<1>2. /\ p \in Outside /\ p \in Pointers /\ pointsTo[p] # Nothing
      /\ q \in Outside /\ q \in Pointers /\ pointsTo[q] = Nothing
      /\ \A t \in Threads : p # Obj(t) /\ q # Obj(t) /\ q # Itf(t) /\ q \notin into[t]
      /\ UNCHANGED <<state, kind, count, locks, pc, call, release>>
  BY PointerNames DEF Held, Empty, HostCopies
<1>3. pointsTo[p] \in Objects /\ state[pointsTo[p]] = "live"
  BY <1>2 DEF CountInv, PointersLive, TypeOK
<1>4. CountInv' /\ refs' \in [Objects -> Nat]
  BY <1>1, <1>2, <1>3, PointerAdded DEF Quietly
<1>5. pointsTo' = [pointsTo EXCEPT ![q] = pointsTo[p]]
  BY <1>1 DEF AddRef
<1>6. TypeOK'
  BY <1>2, <1>3, <1>4, <1>5 DEF TypeOK
<1>7. StackKept'
  <2>1. \A u \in Threads :
           pointsTo'[Obj(u)] = pointsTo[Obj(u)] /\ pointsTo'[Itf(u)] = pointsTo[Itf(u)]
    BY <1>2, <1>5, PointerNames DEF TypeOK
  <2>2. \A u \in Threads : Point(u)' = Point(u)
    BY <1>2 DEF Point
  <2>. QED
    BY <2>1, <2>2 DEF StackKept, Mine
<1>8. PlacesKept'
  <2>1. \A r \in Outside : pointsTo'[r] = IF r = q THEN pointsTo[p] ELSE pointsTo[r]
    BY <1>5, PointerNames DEF TypeOK
  <2>2. \A u \in Threads : into[u] \subseteq Outside /\ got[u] \subseteq Outside
    BY DEF TypeOK
  <2>. QED
    BY <1>2, <2>1, <2>2 DEF PlacesKept
<1>. QED
  BY <1>4, <1>6, <1>7, <1>8

LEMMA HostLocksKeeps == ASSUME ComInv, HostLocks PROVE ComInv'
<1>. USE DEF ComInv, objects, call, release
<1>1. UNCHANGED <<objects, pointsTo, pc, call, release>>
  BY DEF HostLocks
<1>2. CountedObjects' = CountedObjects
  BY <1>1 DEF CountedObjects, Counted
<1>3. /\ count = locks + Cardinality(CountedObjects)
      /\ locks \in 0..MaxLocks /\ count \in Nat /\ MaxLocks \in Nat
      /\ Cardinality(CountedObjects) \in Nat
  BY FiniteCounted, ComAssumption DEF CountInv, CountExact, TypeOK
<1>4. \/ locks < MaxLocks /\ locks' = locks + 1 /\ count' = count + 1
      \/ locks > 0 /\ locks' = locks - 1 /\ count' = count - 1
  BY DEF HostLocks, LockCounted
<1>5. /\ count' = locks' + Cardinality(CountedObjects)
      /\ locks' \in 0..MaxLocks /\ count' \in Nat
  BY <1>3, <1>4
<1>6. TypeOK'
  BY <1>1, <1>5 DEF TypeOK
<1>7. CountExact'
  BY <1>2, <1>5 DEF CountExact
<1>8. RefsExact' /\ PointersLive'
  BY <1>1 DEF CountInv, RefsExact, PointersTo, PointersLive, Exists
<1>9. CountingOwn' /\ DeletingOwn' /\ NoneForgotten' /\ StackKept' /\ PlacesKept'
  BY <1>1 DEF CountInv, CountingOwn, Mine, DeletingOwn, NoneForgotten, Exists, StackKept,
              Point, PlacesKept
<1>. QED
  BY <1>6, <1>7, <1>8, <1>9 DEF CountInv

LEMMA ConstructKeeps == ASSUME ComInv, NEW t \in Threads, Construct(t) PROVE ComInv'
<1>. USE DEF ComInv, objects, call, release
<1>0. UNCHANGED <<count, locks, call, release>> /\ pc[t] = "construct"
  BY DEF Construct
<1>1. CASE Goto(t, "give up") /\ UNCHANGED <<objects, pointsTo>>
  <2>1. TypeOK'
    BY <1>0, <1>1 DEF Goto, TypeOK
  <2>2. CountInv'
    <3>1. Quietly
      BY <1>0, <1>1 DEF Goto, Quietly, QuietPoints, TypeOK
    <3>. QED
      BY <1>0, <1>1, <3>1, NoPointerChanges
  <2>3. StackKept'
    BY <1>0, <1>1 DEF Goto, StackKept, Point, HasObject, HasInterface, Mine, TypeOK
  <2>4. PlacesKept'
    BY <1>0, <1>1 DEF PlacesKept
  <2>. QED
    BY <2>1, <2>2, <2>3, <2>4
<1>2. CASE \E o \in Objects :
             /\ state[o] = "free"
             /\ state' = [state EXCEPT ![o] = "raw"]
             /\ kind' = [kind EXCEPT ![o] = making[t]]
             /\ refs' = [refs EXCEPT ![o] = 1]
             /\ pointsTo' = [pointsTo EXCEPT ![Obj(t)] = o]
             /\ Goto(t, "count")
  <2>1. PICK o \in Objects :
             /\ state[o] = "free"
             /\ state' = [state EXCEPT ![o] = "raw"]
             /\ kind' = [kind EXCEPT ![o] = making[t]]
             /\ refs' = [refs EXCEPT ![o] = 1]
             /\ pointsTo' = [pointsTo EXCEPT ![Obj(t)] = o]
             /\ pc' = [pc EXCEPT ![t] = "count"]
    BY <1>2 DEF Goto
  <2>2. /\ Obj(t) \in Pointers /\ Obj(t) \notin Outside
        /\ \A u \in Threads : Obj(u) \in Pointers /\ Itf(u) \in Pointers /\ Obj(t) # Itf(u)
        /\ \A u \in Threads \ {t} : Obj(u) # Obj(t)
        /\ Nothing \notin Objects
    BY PointerNames, ComAssumption
  <2>3. pointsTo[Obj(t)] = Nothing
    BY <1>0 DEF StackKept, Point, HasObject, Mine
  <2>4. \A p \in Pointers : pointsTo[p] # o
    BY <2>1, <2>2 DEF CountInv, PointersLive, Exists
  <2>5. \A p \in Pointers : pointsTo'[p] = IF p = Obj(t) THEN o ELSE pointsTo[p]
    BY <2>1 DEF TypeOK
  <2>6. \A x \in Objects : state'[x] = IF x = o THEN "raw" ELSE state[x]
    BY <2>1 DEF TypeOK
  <2>7. \A u \in Threads : pc'[u] = IF u = t THEN "count" ELSE pc[u]
    BY <2>1 DEF TypeOK
  <2>8. \A x \in Objects : refs'[x] = IF x = o THEN 1 ELSE refs[x]
    BY <2>1 DEF TypeOK
  <2>9. TypeOK'
    BY <1>0, <2>1 DEF TypeOK
  <2>10. RefsExact'
    <3>1. PointersTo(o) = {}
      BY <2>4 DEF PointersTo
    <3>2. refs[o] = 0
      BY <3>1, FS_EmptySet DEF CountInv, RefsExact
    <3>3. pointsTo \in [Pointers -> Objects \cup {Nothing}]
      BY DEF TypeOK
    <3>4. ASSUME NEW x \in Objects PROVE refs'[x] = Cardinality(PointersTo(x)')
      <4>1. refs[x] = Cardinality(PointersTo(x))
        BY DEF CountInv, RefsExact
      <4>2. Cardinality(PointersTo(x)') =
               IF x = o THEN Cardinality(PointersTo(x)) + 1 ELSE Cardinality(PointersTo(x))
        BY <2>1, <2>2, <2>3, <3>3, OneMore
      <4>. QED
        BY <2>8, <3>2, <4>1, <4>2
    <3>. QED
      BY <3>4 DEF RefsExact
  <2>11. CountExact'
    <3>1. \A x \in Objects : Counted(x)' <=> Counted(x)
      BY <2>1, <2>6 DEF Counted
    <3>. QED
      BY <1>0, <3>1, SameCounted DEF CountInv
  <2>12. PointersLive'
    <3>. SUFFICES ASSUME NEW p \in Pointers, pointsTo'[p] # Nothing
                  PROVE  /\ Exists(pointsTo[p])'
                         /\ (\A u \in Threads : pc'[u] = "count" => p # Obj(u))
                                => state'[pointsTo'[p]] = "live"
      BY DEF PointersLive
    <3>1. CASE p = Obj(t)
      BY <2>5, <2>6, <2>7, <3>1 DEF Exists
    <3>2. CASE p # Obj(t)
      <4>1. pointsTo'[p] = pointsTo[p] /\ pointsTo[p] \in Objects /\ pointsTo[p] # o
        BY <2>4, <2>5, <3>2 DEF TypeOK
      <4>2. state'[pointsTo[p]] = state[pointsTo[p]]
        BY <2>6, <4>1
      <4>3. (\A u \in Threads : pc'[u] = "count" => p # Obj(u)) =>
               \A u \in Threads : pc[u] = "count" => p # Obj(u)
        BY <2>7, <3>2
      <4>. QED
        BY <4>1, <4>2, <4>3 DEF CountInv, PointersLive, Exists
    <3>. QED
      BY <3>1, <3>2
  <2>13. CountingOwn'
    <3>. SUFFICES ASSUME NEW u \in Threads, pc'[u] = "count"
                  PROVE  /\ state'[Mine(u)'] = "raw"
                         /\ \A p \in Pointers : pointsTo'[p] = Mine(u)' => p = Obj(u)
      BY DEF CountingOwn
    <3>1. CASE u = t
      BY <2>2, <2>4, <2>5, <2>6, <3>1 DEF Mine
    <3>2. CASE u # t
      <4>1. pc[u] = "count" /\ Mine(u)' = Mine(u)
        BY <2>2, <2>5, <2>7, <3>2 DEF Mine
      <4>2. /\ state[Mine(u)] = "raw" /\ Mine(u) # o /\ Mine(u) # Nothing
            /\ \A p \in Pointers : pointsTo[p] = Mine(u) => p = Obj(u)
        BY <2>2, <2>4, <4>1 DEF CountInv, CountingOwn, StackKept, Point, HasObject, Mine
      <4>3. Mine(u) \in Objects
        BY <2>2, <4>2 DEF Mine, TypeOK
      <4>. QED
        BY <2>5, <2>6, <4>1, <4>2, <4>3
    <3>. QED
      BY <3>1, <3>2
  <2>14. DeletingOwn'
    <3>1. \A u \in Threads : pc'[u] \in {"uncount", "destroy"} =>
             u # t /\ pc'[u] = pc[u] /\ dying[u] \in Objects /\ dying[u] # o
      BY <2>1, <2>7 DEF CountInv, DeletingOwn
    <3>2. UNCHANGED dying
      BY <1>0
    <3>. QED
      BY <2>6, <3>1, <3>2 DEF CountInv, DeletingOwn
  <2>15. NoneForgotten'
    <3>1. \A x \in Objects : Exists(x)' => refs'[x] > 0
      BY <2>6, <2>8 DEF CountInv, NoneForgotten, Exists
    <3>2. ASSUME NEW x \in Objects, state'[x] \in {"dying", "gone"}
          PROVE  \E u \in Threads : pc'[u] \in {"uncount", "destroy"} /\ dying'[u] = x
      <4>1. PICK u \in Threads : pc[u] \in {"uncount", "destroy"} /\ dying[u] = x
        BY <2>6, <3>2 DEF CountInv, NoneForgotten
      <4>. QED
        BY <1>0, <2>7, <4>1
    <3>. QED
      BY <3>1, <3>2 DEF NoneForgotten
  <2>16. StackKept'
    <3>1. \A u \in Threads : Point(u)' = IF u = t THEN "count" ELSE Point(u)
      BY <1>0, <2>7 DEF Point
    <3>2. Point(t) = "construct"
      BY <1>0 DEF Point
    <3>. QED
      BY <2>1, <2>2, <2>5, <3>1, <3>2 DEF StackKept, Mine, HasObject, HasInterface
  <2>17. PlacesKept'
    <3>1. \A p \in Outside : pointsTo'[p] = pointsTo[p]
      BY <2>2, <2>5, PointerNames
    <3>2. \A u \in Threads : into[u] \subseteq Outside /\ got[u] \subseteq Outside
      BY DEF TypeOK
    <3>. QED
      BY <1>0, <3>1, <3>2 DEF PlacesKept
  <2>. QED
    BY <2>9, <2>10, <2>11, <2>12, <2>13, <2>14, <2>15, <2>16, <2>17 DEF CountInv
<1>. QED
  BY <1>1, <1>2 DEF Construct

LEMMA CountKeeps == ASSUME ComInv, NEW t \in Threads, Count(t) PROVE ComInv'
<1>. DEFINE o == Mine(t)
<1>. USE DEF ComInv, objects, call, release
<1>0. /\ UNCHANGED <<kind, refs, locks, pointsTo, call, release>>
      /\ pc[t] = "count"
      /\ state' = [state EXCEPT ![o] = "live"]
      /\ count' = count + 1
      /\ pc' = [pc EXCEPT ![t] = "query"]
  BY DEF Count, Goto
<1>1. /\ o \in Objects /\ state[o] = "raw" /\ Obj(t) \in Pointers
      /\ \A p \in Pointers : pointsTo[p] = o => p = Obj(t)
  <2>1. o # Nothing /\ Obj(t) \in Pointers
    BY <1>0, PointerNames DEF StackKept, Point, HasObject
  <2>. QED
    BY <1>0, <2>1 DEF CountInv, CountingOwn, Mine, TypeOK
<1>2. \A x \in Objects : state'[x] = IF x = o THEN "live" ELSE state[x]
  BY <1>0 DEF TypeOK
<1>3. \A u \in Threads : pc'[u] = IF u = t THEN "query" ELSE pc[u]
  BY <1>0 DEF TypeOK
<1>. HIDE DEF o
<1>4. TypeOK'
  <2>1. count \in Nat
    BY DEF TypeOK
  <2>2. count' \in Nat
    BY <1>0, <2>1
  <2>3. state' \in [Objects -> {"free", "raw", "live", "dying", "gone"}]
    BY <1>0, <1>1 DEF TypeOK
  <2>. QED
    BY <1>0, <2>2, <2>3 DEF TypeOK
<1>5. RefsExact'
  BY <1>0 DEF CountInv, RefsExact, PointersTo
<1>6. CountExact'
  <2>1. CountedObjects' = CountedObjects \cup {o} /\ o \notin CountedObjects
    BY <1>1, <1>2 DEF CountedObjects, Counted
  <2>2. Cardinality(CountedObjects') = Cardinality(CountedObjects) + 1
    BY <2>1, FiniteCounted, FS_AddElement
  <2>3. count = locks + Cardinality(CountedObjects) /\ count \in Nat /\ locks \in Nat
    <3>1. locks \in 0..MaxLocks /\ count \in Nat
      BY DEF TypeOK
    <3>2. locks \in Nat
      BY <3>1, ComAssumption
    <3>. QED
      BY <3>1, <3>2 DEF CountInv, CountExact
  <2>. QED
    BY <1>0, <2>2, <2>3, FiniteCounted DEF CountExact
<1>7. PointersLive'
  <2>. SUFFICES ASSUME NEW p \in Pointers, pointsTo[p] # Nothing
                PROVE  /\ Exists(pointsTo[p])'
                       /\ (\A u \in Threads : pc'[u] = "count" => p # Obj(u))
                              => state'[pointsTo[p]] = "live"
    BY <1>0 DEF PointersLive
  <2>1. CASE p = Obj(t)
    BY <1>0, <1>1, <1>2, <2>1 DEF Exists, Mine, o
  <2>2. CASE p # Obj(t)
    <3>1. pointsTo[p] \in Objects /\ pointsTo[p] # o
      BY <1>1, <2>2 DEF TypeOK
    <3>2. state'[pointsTo[p]] = state[pointsTo[p]] /\ pointsTo'[p] = pointsTo[p]
      BY <1>0, <1>2, <3>1
    <3>3. (\A u \in Threads : pc'[u] = "count" => p # Obj(u)) =>
             \A u \in Threads : pc[u] = "count" => p # Obj(u)
      BY <1>3, <2>2
    <3>. QED
      BY <3>2, <3>3 DEF CountInv, PointersLive, Exists
  <2>. QED
    BY <2>1, <2>2
<1>8. CountingOwn'
  <2>. SUFFICES ASSUME NEW u \in Threads, u # t, pc[u] = "count"
                PROVE  /\ state'[Mine(u)] = "raw"
                       /\ \A p \in Pointers : pointsTo[p] = Mine(u) => p = Obj(u)
    BY <1>0, <1>3 DEF CountingOwn, Mine
  <2>1. /\ state[Mine(u)] = "raw"
        /\ \A p \in Pointers : pointsTo[p] = Mine(u) => p = Obj(u)
    BY DEF CountInv, CountingOwn
  <2>2. Mine(u) \in Objects /\ Obj(u) \in Pointers /\ Obj(u) # Obj(t)
    BY PointerNames DEF StackKept, Point, HasObject, Mine, TypeOK
  <2>3. Mine(u) # o
    BY <1>1, <2>2 DEF Mine
  <2>. QED
    BY <1>2, <2>1, <2>2, <2>3
<1>9. DeletingOwn'
  <2>1. \A u \in Threads : pc'[u] \in {"uncount", "destroy"} =>
           u # t /\ pc'[u] = pc[u] /\ dying[u] \in Objects /\ dying[u] # o
    BY <1>1, <1>3 DEF CountInv, DeletingOwn
  <2>. QED
    BY <1>0, <1>2, <2>1 DEF CountInv, DeletingOwn
<1>10. NoneForgotten'
  <2>1. \A x \in Objects : Exists(x)' => refs'[x] > 0
    BY <1>0, <1>1, <1>2 DEF CountInv, NoneForgotten, Exists
  <2>2. ASSUME NEW x \in Objects, state'[x] \in {"dying", "gone"}
        PROVE  \E u \in Threads : pc'[u] \in {"uncount", "destroy"} /\ dying'[u] = x
    <3>1. PICK u \in Threads : pc[u] \in {"uncount", "destroy"} /\ dying[u] = x
      BY <1>2, <2>2 DEF CountInv, NoneForgotten
    <3>. QED
      BY <1>0, <1>3, <3>1
  <2>. QED
    BY <2>1, <2>2 DEF NoneForgotten
<1>11. StackKept'
  <2>1. \A u \in Threads : Point(u)' = IF u = t THEN "query" ELSE Point(u)
    BY <1>0, <1>3 DEF Point
  <2>2. Point(t) = "count"
    BY <1>0 DEF Point
  <2>. QED
    BY <1>0, <2>1, <2>2 DEF StackKept, Mine, HasObject, HasInterface
<1>12. PlacesKept'
  BY <1>0 DEF PlacesKept
<1>. QED
  BY <1>4, <1>5, <1>6, <1>7, <1>8, <1>9, <1>10, <1>11, <1>12 DEF CountInv

\* A pointer outside the DLL is filled, by a thread between quiet points.
LEMMA FillKeeps ==
    ASSUME ComInv, NEW t \in Threads, Fill(t),
           pc[t] \in {"query", "pass"},
           NEW point \in {"drop object", "drop interface"},
           point = "drop interface" <=> pc[t] = "pass",
           Goto(t, point), UNCHANGED <<state, kind, count, locks, via, making, release>>
    PROVE  ComInv'
<1>. USE DEF ComInv, release
<1>1. PICK p \in into[t] :
        /\ AddRef(p, Mine(t))
        /\ into' = [into EXCEPT ![t] = @ \ {p}]
        /\ got' = [got EXCEPT ![t] = @ \cup {p}]
        /\ UNCHANGED ok
  BY DEF Fill
<1>2. /\ p \in Outside /\ p \in Pointers /\ pointsTo[p] = Nothing
      /\ \A u \in Threads : p # Obj(u) /\ p # Itf(u)
  <2>1. p \in Outside
    BY <1>1 DEF TypeOK
  <2>2. pointsTo[p] = Nothing
    BY <1>1 DEF PlacesKept
  <2>. QED
    BY <2>1, <2>2, PointerNames
<1>3. /\ Mine(t) \in Objects /\ state[Mine(t)] = "live"
  <2>1. Mine(t) # Nothing
    BY DEF StackKept, Point, HasObject
  <2>2. \A u \in Threads : pc[u] = "count" => Obj(t) # Obj(u)
    BY PointerNames
  <2>. QED
    BY <2>1, <2>2, PointerNames DEF CountInv, PointersLive, Mine, TypeOK
<1>4. CountInv' /\ refs' \in [Objects -> Nat]
  <2>1. Quietly
    BY DEF Goto, Quietly, QuietPoints, TypeOK
  <2>. QED
    BY <1>1, <1>2, <1>3, <2>1, PointerAdded
<1>5. pointsTo' = [pointsTo EXCEPT ![p] = Mine(t)]
  BY <1>1 DEF AddRef
<1>6. TypeOK'
  <2>1. pc' = [pc EXCEPT ![t] = point]
    BY DEF Goto
  <2>2. into' \in [Threads -> SUBSET Outside] /\ got' \in [Threads -> SUBSET Outside]
    BY <1>1, <1>2 DEF TypeOK
  <2>3. pointsTo' \in [Pointers -> Objects \cup {Nothing}]
    BY <1>2, <1>3, <1>5 DEF TypeOK
  <2>. QED
    BY <1>1, <1>4, <2>1, <2>2, <2>3 DEF TypeOK
<1>7. StackKept'
  <2>1. \A u \in Threads :
           pointsTo'[Obj(u)] = pointsTo[Obj(u)] /\ pointsTo'[Itf(u)] = pointsTo[Itf(u)]
    BY <1>2, <1>5, PointerNames DEF TypeOK
  <2>2. \A u \in Threads : Point(u)' = IF u = t THEN point ELSE Point(u)
    BY DEF Point, Goto, TypeOK
  <2>3. Point(t) = pc[t]
    BY DEF Point
  <2>. QED
    BY <2>1, <2>2, <2>3 DEF StackKept, Mine, HasObject, HasInterface
<1>8. PlacesKept'
  <2>1. \A q \in Outside : pointsTo'[q] = IF q = p THEN Mine(t) ELSE pointsTo[q]
    BY <1>5, PointerNames DEF TypeOK
  <2>2. \A u \in Threads : into[u] \subseteq Outside /\ got[u] \subseteq Outside
    BY DEF TypeOK
  <2>3. \A u \in Threads :
           /\ into'[u] = IF u = t THEN into[u] \ {p} ELSE into[u]
           /\ got'[u] = IF u = t THEN got[u] \cup {p} ELSE got[u]
    BY <1>1 DEF TypeOK
  <2>4. \A u \in Threads \ {t} : p \notin into[u] /\ p \notin got[u]
    BY <1>1, <1>2 DEF PlacesKept
  <2>5. Mine(t) # Nothing /\ p \notin got[t]
    BY <1>2, <1>3, ComAssumption DEF PlacesKept
  <2>6. ASSUME NEW u \in Threads, NEW q \in into'[u] PROVE pointsTo'[q] = Nothing
    <3>1. q \in into[u] /\ q # p /\ q \in Outside
      BY <2>2, <2>3, <2>4, <2>6
    <3>. QED
      BY <2>1, <3>1 DEF PlacesKept
  <2>7. ASSUME NEW u \in Threads, NEW q \in got'[u] PROVE pointsTo'[q] # Nothing
    <3>1. CASE q = p
      BY <1>2, <2>1, <2>5, <3>1
    <3>2. CASE q # p
      <4>1. q \in got[u] /\ q \in Outside
        BY <2>2, <2>3, <2>7, <3>2
      <4>. QED
        BY <2>1, <3>2, <4>1 DEF PlacesKept
    <3>. QED
      BY <3>1, <3>2
  <2>8. ASSUME NEW u \in Threads, NEW w \in Threads \ {u}
        PROVE  into[u] \cap into[w] = {} /\ got[u] \cap got[w] = {}
    BY DEF PlacesKept
  <2>9. ASSUME NEW u \in Threads, NEW w \in Threads \ {u}
        PROVE  into'[u] \cap into'[w] = {} /\ got'[u] \cap got'[w] = {}
    <3>1. CASE u = t
      <4>1. /\ into'[u] = into[u] \ {p} /\ got'[u] = got[u] \cup {p}
            /\ into'[w] = into[w] /\ got'[w] = got[w] /\ p \notin got[w]
        BY <2>3, <2>4, <3>1
      <4>2. into[u] \cap into[w] = {} /\ got[u] \cap got[w] = {}
        BY <2>8
      <4>3. into'[u] \cap into'[w] = {}
        BY <4>1, <4>2
      <4>4. got'[u] \cap got'[w] = {}
        BY <4>1, <4>2
      <4>. QED
        BY <4>3, <4>4
    <3>2. CASE w = t
      <4>1. /\ into'[w] = into[w] \ {p} /\ got'[w] = got[w] \cup {p}
            /\ into'[u] = into[u] /\ got'[u] = got[u] /\ p \notin got[u]
        BY <2>3, <2>4, <3>2
      <4>2. into[u] \cap into[w] = {} /\ got[u] \cap got[w] = {}
        BY <2>8
      <4>3. into'[u] \cap into'[w] = {}
        BY <4>1, <4>2
      <4>4. got'[u] \cap got'[w] = {}
        BY <4>1, <4>2
      <4>. QED
        BY <4>3, <4>4
    <3>3. CASE u # t /\ w # t
      BY <2>3, <2>8, <3>3
    <3>. QED
      BY <3>1, <3>2, <3>3
  <2>. QED
    BY <2>6, <2>7, <2>9 DEF PlacesKept
<1>. QED
  BY <1>4, <1>6, <1>7, <1>8

\* A step of a call that changes no pointer.
LEMMA MovesKeeps ==
    ASSUME ComInv, NEW t \in Threads,
           NEW point \in QuietPoints, Goto(t, point), pc[t] \in QuietPoints,
           pc[t] \in HasObject <=> point \in HasObject,
           pc[t] \in HasInterface <=> point \in HasInterface,
           UNCHANGED <<objects, count, locks, pointsTo, release>>
    PROVE  /\ CountInv' /\ StackKept'
           /\ pc' \in [Threads -> ProgramPoints]
<1>. USE DEF ComInv, objects, release
<1>1. \A u \in Threads : pc'[u] = IF u = t THEN point ELSE pc[u]
  BY DEF Goto, TypeOK
<1>2. CountInv'
  <2>1. Quietly
    BY <1>1 DEF Quietly
  <2>. QED
    BY <2>1, NoPointerChanges
<1>3. StackKept'
  <2>1. Point(t) = pc[t] /\ Point(t)' = point
    BY <1>1 DEF Point, QuietPoints
  <2>2. \A u \in Threads \ {t} : Point(u)' = Point(u)
    BY <1>1 DEF Point
  <2>3. \A u \in Threads :
           /\ Point(u) \in HasObject <=> Point(u)' \in HasObject
           /\ Point(u) \in HasInterface <=> Point(u)' \in HasInterface
    BY <2>1, <2>2
  <2>4. \A u \in Threads : pointsTo'[Obj(u)] = pointsTo[Obj(u)] /\ pointsTo'[Itf(u)] = pointsTo[Itf(u)]
    OBVIOUS
  <2>. QED
    BY <2>3, <2>4 DEF StackKept, Mine
<1>4. point \in ProgramPoints
  BY DEF QuietPoints
<1>. QED
  BY <1>2, <1>3, <1>4 DEF Goto, TypeOK

\* A call that fails makes no pointer.
LEMMA FailKeeps ==
    ASSUME ComInv, NEW t \in Threads, Fail(t),
           pc[t] \in {"query", "pass"},
           NEW point \in {"drop object", "drop interface"},
           point = "drop interface" <=> pc[t] = "pass",
           Goto(t, point), UNCHANGED <<state, kind, count, locks, via, making, release>>
    PROVE  ComInv'
<1>. USE DEF ComInv, Fail
<1>1. /\ CountInv' /\ StackKept'
      /\ pc' \in [Threads -> ProgramPoints]
  <2>1. /\ pc[t] \in QuietPoints /\ point \in QuietPoints
        /\ pc[t] \in HasObject /\ point \in HasObject
        /\ pc[t] \in HasInterface <=> point \in HasInterface
    BY DEF QuietPoints, HasObject, HasInterface
  <2>. QED
    BY <2>1, MovesKeeps DEF objects
<1>2. TypeOK'
  BY <1>1 DEF release, TypeOK
<1>3. PlacesKept'
  BY DEF PlacesKept
<1>. QED
  BY <1>1, <1>2, <1>3

LEMMA QueryKeeps == ASSUME ComInv, NEW t \in Threads, Query(t) PROVE ComInv'
<1>. USE DEF ComInv, release
<1>0. /\ pc[t] = "query"
      /\ UNCHANGED <<state, kind, count, locks, via, making, release>>
  BY DEF Query
<1>1. CASE Fill(t) /\ Goto(t, "drop object")
  BY <1>0, <1>1, FillKeeps
<1>2. CASE Fail(t) /\ Goto(t, AfterFailure)
  BY <1>0, <1>2, FailKeeps DEF AfterFailure
<1>3. CASE AddRef(Itf(t), Mine(t)) /\ Goto(t, "pass") /\ UNCHANGED <<into, got, ok>>
  <2>1. /\ Itf(t) \in Pointers /\ Itf(t) \notin Outside /\ pointsTo[Itf(t)] = Nothing
        /\ Mine(t) \in Objects
    BY <1>0, PointerNames DEF StackKept, Point, HasObject, HasInterface, Mine, TypeOK
  <2>2. state[Mine(t)] = "live"
    <3>1. \A u \in Threads : pc[u] = "count" => Obj(t) # Obj(u)
      BY <1>0, PointerNames
    <3>2. Mine(t) # Nothing
      BY <2>1, ComAssumption
    <3>. QED
      BY <3>1, <3>2, PointerNames DEF CountInv, PointersLive, Mine
  <2>3. CountInv' /\ refs' \in [Objects -> Nat]
    <3>1. Quietly
      BY <1>0, <1>3 DEF Goto, Quietly, QuietPoints, TypeOK
    <3>. QED
      BY <1>0, <1>3, <2>1, <2>2, <3>1, PointerAdded
  <2>4. pointsTo' = [pointsTo EXCEPT ![Itf(t)] = Mine(t)]
    BY <1>3 DEF AddRef
  <2>5. pc' = [pc EXCEPT ![t] = "pass"]
    BY <1>3 DEF Goto
  <2>6. TypeOK'
    BY <1>0, <1>3, <2>1, <2>3, <2>4, <2>5 DEF TypeOK
  <2>7. StackKept'
    <3>1. \A u \in Threads : Point(u)' = IF u = t THEN "pass" ELSE Point(u)
      BY <1>0, <2>5 DEF Point, TypeOK
    <3>2. Point(t) = "query"
      BY <1>0 DEF Point
    <3>3. \A u \in Threads :
             /\ pointsTo'[Obj(u)] = pointsTo[Obj(u)]
             /\ pointsTo'[Itf(u)] = IF u = t THEN Mine(t) ELSE pointsTo[Itf(u)]
      BY <2>1, <2>4, PointerNames DEF TypeOK
    <3>4. Mine(t) # Nothing
      BY <2>1, ComAssumption
    <3>. QED
      BY <3>1, <3>2, <3>3, <3>4 DEF StackKept, Mine, HasObject, HasInterface
  <2>8. PlacesKept'
    <3>1. \A p \in Outside : pointsTo'[p] = pointsTo[p]
      BY <2>1, <2>4, PointerNames DEF TypeOK
    <3>2. \A u \in Threads : into[u] \subseteq Outside /\ got[u] \subseteq Outside
      BY DEF TypeOK
    <3>. QED
      BY <1>3, <3>1, <3>2 DEF PlacesKept
  <2>. QED
    BY <2>3, <2>6, <2>7, <2>8
<1>. QED
  BY <1>1, <1>2, <1>3 DEF Query

LEMMA PassKeeps == ASSUME ComInv, NEW t \in Threads, Pass(t) PROVE ComInv'
<1>1. /\ pc[t] = "pass" /\ Goto(t, "drop interface")
      /\ UNCHANGED <<state, kind, count, locks, via, making, release>>
      /\ Fill(t) \/ Fail(t)
  BY DEF Pass
<1>. QED
  BY <1>1, FillKeeps, FailKeeps

\* A call goes on as it is, or returns.
LEMMA CallKept ==
    ASSUME TypeOK, PlacesKept, NEW t \in Threads, UNCHANGED call \/ Return(t),
           UNCHANGED <<objects, count, locks, pointsTo, release>>,
           pc' \in [Threads -> ProgramPoints]
    PROVE  TypeOK' /\ PlacesKept'
<1>1. CASE UNCHANGED call
  BY <1>1 DEF call, objects, release, TypeOK, PlacesKept
<1>2. CASE Return(t)
  <2>1. /\ via' \in [Threads -> Outside \cup {Nothing}]
        /\ making' \in [Threads -> Kinds]
        /\ into' \in [Threads -> SUBSET Outside]
        /\ got' \in [Threads -> SUBSET Outside]
        /\ ok' \in [Threads -> BOOLEAN]
    BY <1>2 DEF Return, Kinds, TypeOK
  <2>2. TypeOK'
    BY <2>1 DEF objects, release, TypeOK
  <2>3. \A u \in Threads : /\ into'[u] = IF u = t THEN {} ELSE into[u]
                           /\ got'[u] = IF u = t THEN {} ELSE got[u]
    BY <1>2 DEF Return, TypeOK
  <2>4. PlacesKept'
    BY <2>3 DEF PlacesKept
  <2>. QED
    BY <2>2, <2>4
<1>. QED
  BY <1>1, <1>2

LEMMA MakeNextKeeps == ASSUME ComInv, NEW t \in Threads, MakeNext(t) PROVE ComInv'
<1>. USE DEF ComInv
<1>1. PICK point \in {"construct", "idle", "give up"} :
        /\ Goto(t, point)
        /\ UNCHANGED call \/ Return(t)
  BY DEF MakeNext, Return
<1>2. pc[t] = "next" /\ UNCHANGED <<objects, count, locks, pointsTo, release>>
  BY DEF MakeNext
<1>3. /\ CountInv' /\ StackKept'
      /\ pc' \in [Threads -> ProgramPoints]
  <2>1. /\ pc[t] \in QuietPoints /\ point \in QuietPoints
        /\ pc[t] \notin HasObject /\ point \notin HasObject
        /\ pc[t] \notin HasInterface /\ point \notin HasInterface
    BY <1>2 DEF QuietPoints, HasObject, HasInterface
  <2>. QED
    BY <1>1, <1>2, <2>1, MovesKeeps
<1>4. TypeOK' /\ PlacesKept'
  BY <1>1, <1>2, <1>3, CallKept
<1>. QED
  BY <1>3, <1>4

LEMMA GiveUpKeeps == ASSUME ComInv, NEW t \in Threads, GiveUp(t) PROVE ComInv'
<1>. USE DEF ComInv
<1>0. pc[t] = "give up" /\ pc[t] \in QuietPoints
  BY DEF GiveUp, QuietPoints
<1>1. CASE Return(t) /\ UNCHANGED <<objects, count, locks, pointsTo, release>>
  <2>1. /\ CountInv' /\ StackKept'
        /\ pc' \in [Threads -> ProgramPoints]
    <3>1. /\ "idle" \in QuietPoints
          /\ pc[t] \notin HasObject /\ "idle" \notin HasObject
          /\ pc[t] \notin HasInterface /\ "idle" \notin HasInterface
      BY <1>0 DEF QuietPoints, HasObject, HasInterface
    <3>. QED
      BY <1>0, <1>1, <3>1, MovesKeeps DEF Return
  <2>2. TypeOK' /\ PlacesKept'
    BY <1>1, <2>1, CallKept
  <2>. QED
    BY <2>1, <2>2
<1>2. CASE \E p \in got[t] :
             /\ Release(t, p, "give up")
             /\ got' = [got EXCEPT ![t] = @ \ {p}]
             /\ UNCHANGED <<via, making, into, ok>>
  <2>1. PICK p \in got[t] :
             /\ Release(t, p, "give up")
             /\ got' = [got EXCEPT ![t] = @ \ {p}]
             /\ UNCHANGED <<via, making, into, ok>>
    BY <1>2
  <2>2. /\ p \in Outside /\ p \in Pointers /\ pointsTo[p] # Nothing
        /\ \A u \in Threads : p # Obj(u) /\ p # Itf(u)
    <3>1. p \in Outside
      BY <2>1 DEF TypeOK
    <3>2. pointsTo[p] # Nothing
      BY <2>1 DEF PlacesKept
    <3>. QED
      BY <3>1, <3>2, PointerNames
  <2>3. /\ CountInv' /\ refs' \in [Objects -> Nat]
        /\ Point(t)' = "give up"
        /\ \A u \in Threads \ {t} : Point(u)' = Point(u)
        /\ state' \in [Objects -> {"free", "raw", "live", "dying", "gone"}]
        /\ dying' \in [Threads -> Objects \cup {Nothing}]
        /\ after' \in [Threads -> {"idle", "drop object", "next", "give up"}]
        /\ pc' \in [Threads -> ProgramPoints]
    BY <1>0, <2>1, <2>2, PointerDropped
  <2>4. pointsTo' = [pointsTo EXCEPT ![p] = Nothing] /\ UNCHANGED <<kind, count, locks>>
    BY <2>1 DEF Release
  <2>5. \A u \in Threads : got'[u] = IF u = t THEN got[u] \ {p} ELSE got[u]
    BY <2>1 DEF TypeOK
  <2>6. TypeOK'
    <3>1. got' \in [Threads -> SUBSET Outside]
      BY <2>1 DEF TypeOK
    <3>2. pointsTo' \in [Pointers -> Objects \cup {Nothing}]
      BY <2>4 DEF TypeOK
    <3>. QED
      BY <2>1, <2>3, <2>4, <3>1, <3>2 DEF TypeOK
  <2>7. StackKept'
    <3>1. Point(t) = "give up"
      BY <1>0 DEF Point
    <3>2. \A u \in Threads : Point(u)' = Point(u)
      BY <2>3, <3>1
    <3>3. \A u \in Threads :
             pointsTo'[Obj(u)] = pointsTo[Obj(u)] /\ pointsTo'[Itf(u)] = pointsTo[Itf(u)]
      BY <2>2, <2>4, PointerNames DEF TypeOK
    <3>. QED
      BY <3>2, <3>3 DEF StackKept, Mine
  <2>8. PlacesKept'
    <3>1. \A q \in Outside : pointsTo'[q] = IF q = p THEN Nothing ELSE pointsTo[q]
      BY <2>4, PointerNames DEF TypeOK
    <3>2. \A u \in Threads : into[u] \subseteq Outside /\ got[u] \subseteq Outside
      BY DEF TypeOK
    <3>3. \A u \in Threads \ {t} : p \notin got[u]
      BY <2>1 DEF PlacesKept
    <3>4. ASSUME NEW u \in Threads, NEW q \in into'[u] PROVE pointsTo'[q] = Nothing
      BY <2>1, <3>1, <3>2, <3>4 DEF PlacesKept
    <3>5. ASSUME NEW u \in Threads, NEW q \in got'[u] PROVE pointsTo'[q] # Nothing
      <4>1. q \in got[u] /\ q # p /\ q \in Outside
        BY <2>5, <3>2, <3>3, <3>5
      <4>. QED
        BY <3>1, <4>1 DEF PlacesKept
    <3>6. ASSUME NEW u \in Threads, NEW w \in Threads \ {u}
          PROVE  into'[u] \cap into'[w] = {} /\ got'[u] \cap got'[w] = {}
      <4>1. into[u] \cap into[w] = {} /\ got[u] \cap got[w] = {}
        BY DEF PlacesKept
      <4>2. got'[u] \subseteq got[u] /\ got'[w] \subseteq got[w]
        BY <2>5
      <4>. QED
        BY <2>1, <4>1, <4>2
    <3>. QED
      BY <3>4, <3>5, <3>6 DEF PlacesKept
  <2>. QED
    BY <2>3, <2>6, <2>7, <2>8
<1>. QED
  BY <1>1, <1>2 DEF GiveUp

\* The pointers on the stack of a thread are dropped.
LEMMA StackDropKeeps ==
    ASSUME ComInv, NEW t \in Threads, DropInterface(t) \/ DropObject(t)
    PROVE  ComInv'
<1>. USE DEF ComInv
<1>1. PICK p \in {Obj(t), Itf(t)}, next \in {"drop object", "next"} :
        /\ p = Itf(t) <=> pc[t] = "drop interface"
        /\ p = Obj(t) <=> pc[t] = "drop object"
        /\ next = "drop object" <=> p = Itf(t)
        /\ Release(t, p, next)
  BY PointerNames DEF DropInterface, DropObject
<1>2. /\ pc[t] \in {"drop interface", "drop object"}
      /\ UNCHANGED call
  BY DEF DropInterface, DropObject
<1>3. /\ p \in Pointers /\ p \notin Outside /\ pc[t] \in QuietPoints
      /\ \A u \in Threads : pc[u] = "count" => p # Obj(u)
  BY <1>1, <1>2, PointerNames DEF QuietPoints
<1>4. pointsTo[p] # Nothing
  BY <1>1, <1>2 DEF StackKept, Point, HasObject, HasInterface, Mine
<1>5. /\ CountInv' /\ refs' \in [Objects -> Nat]
      /\ Point(t)' = next
      /\ \A u \in Threads \ {t} : Point(u)' = Point(u)
      /\ state' \in [Objects -> {"free", "raw", "live", "dying", "gone"}]
      /\ dying' \in [Threads -> Objects \cup {Nothing}]
      /\ after' \in [Threads -> {"idle", "drop object", "next", "give up"}]
      /\ pc' \in [Threads -> ProgramPoints]
  BY <1>1, <1>3, <1>4, PointerDropped
<1>6. pointsTo' = [pointsTo EXCEPT ![p] = Nothing] /\ UNCHANGED <<kind, count, locks>>
  BY <1>1 DEF Release
<1>7. TypeOK'
  <2>1. pointsTo' \in [Pointers -> Objects \cup {Nothing}]
    BY <1>6 DEF TypeOK
  <2>. QED
    BY <1>2, <1>5, <1>6, <2>1 DEF call, TypeOK
<1>8. StackKept'
  <2>1. \A q \in Pointers : pointsTo'[q] = IF q = p THEN Nothing ELSE pointsTo[q]
    BY <1>6 DEF TypeOK
  <2>2. Point(t) = pc[t]
    BY <1>2 DEF Point
  <2>3. ASSUME NEW u \in Threads \ {t}
        PROVE  /\ pointsTo'[Obj(u)] # Nothing <=> Point(u)' \in HasObject
               /\ pointsTo'[Itf(u)] # Nothing <=> Point(u)' \in HasInterface
    <3>1. Obj(u) # p /\ Itf(u) # p /\ Obj(u) \in Pointers /\ Itf(u) \in Pointers
      BY <1>1, PointerNames
    <3>. QED
      BY <1>5, <2>1, <3>1 DEF StackKept, Mine
  <2>4. CASE p = Itf(t)
    <3>1. Obj(t) # p /\ Obj(t) \in Pointers /\ Point(t) = "drop interface" /\ next = "drop object"
      BY <1>1, <2>2, <2>4, PointerNames
    <3>. QED
      BY <1>5, <2>1, <2>3, <2>4, <3>1, PointerNames DEF StackKept, Mine, HasObject, HasInterface
  <2>5. CASE p = Obj(t)
    <3>1. Itf(t) # p /\ Itf(t) \in Pointers /\ Point(t) = "drop object" /\ next = "next"
      BY <1>1, <2>2, <2>5, PointerNames
    <3>. QED
      BY <1>5, <2>1, <2>3, <2>5, <3>1, PointerNames DEF StackKept, Mine, HasObject, HasInterface
  <2>. QED
    BY <2>4, <2>5
<1>9. PlacesKept'
  <2>1. \A q \in Outside : pointsTo'[q] = pointsTo[q]
    BY <1>3, <1>6, PointerNames DEF TypeOK
  <2>2. \A u \in Threads : into[u] \subseteq Outside /\ got[u] \subseteq Outside
    BY DEF TypeOK
  <2>. QED
    BY <1>2, <2>1, <2>2 DEF call, PlacesKept
<1>. QED
  BY <1>5, <1>7, <1>8, <1>9

LEMMA UncountKeeps == ASSUME ComInv, NEW t \in Threads, Uncount(t) PROVE ComInv'
<1>. DEFINE o == dying[t]
<1>. USE DEF ComInv
<1>0. /\ UNCHANGED <<kind, refs, locks, pointsTo, call, release>>
      /\ pc[t] = "uncount"
      /\ state' = [state EXCEPT ![o] = "gone"]
      /\ count' = count - 1
      /\ pc' = [pc EXCEPT ![t] = "destroy"]
  BY DEF Uncount, Uncounted, Goto
<1>1. o \in Objects /\ state[o] = "dying"
  BY <1>0 DEF CountInv, DeletingOwn
<1>2. \A x \in Objects : state'[x] = IF x = o THEN "gone" ELSE state[x]
  BY <1>0 DEF TypeOK
<1>3. \A u \in Threads : pc'[u] = IF u = t THEN "destroy" ELSE pc[u]
  BY <1>0 DEF TypeOK
<1>. HIDE DEF o
<1>4. \A p \in Pointers : pointsTo[p] # o
  <2>1. ASSUME NEW p \in Pointers, pointsTo[p] = o PROVE FALSE
    <3>1. pointsTo[p] # Nothing
      BY <1>1, <2>1, ComAssumption
    <3>2. Exists(pointsTo[p])
      BY <3>1 DEF CountInv, PointersLive
    <3>. QED
      BY <1>1, <2>1, <3>2 DEF Exists
  <2>. QED
    BY <2>1
<1>5. /\ CountedObjects' = CountedObjects \ {o} /\ o \in CountedObjects
      /\ Cardinality(CountedObjects') = Cardinality(CountedObjects) - 1
  <2>1. CountedObjects' = CountedObjects \ {o} /\ o \in CountedObjects
    BY <1>1, <1>2 DEF CountedObjects, Counted
  <2>. QED
    BY <2>1, FiniteCounted, FS_RemoveElement
<1>6. /\ count = locks + Cardinality(CountedObjects)
      /\ count \in Nat /\ locks \in Nat /\ Cardinality(CountedObjects) \in Nat \ {0}
  <2>1. locks \in 0..MaxLocks /\ count \in Nat
    BY DEF TypeOK
  <2>2. locks \in Nat
    BY <2>1, ComAssumption
  <2>3. Cardinality(CountedObjects) \in Nat \ {0}
    BY <1>5, FiniteCounted
  <2>. QED
    BY <2>1, <2>2, <2>3 DEF CountInv, CountExact
<1>7. CountExact' /\ count' \in Nat
  <2>1. count' \in Nat /\ count' = locks + (Cardinality(CountedObjects) - 1)
    BY <1>0, <1>6
  <2>. QED
    BY <1>0, <1>5, <2>1 DEF CountExact
<1>8. TypeOK'
  <2>1. state' \in [Objects -> {"free", "raw", "live", "dying", "gone"}]
    BY <1>0, <1>1 DEF TypeOK
  <2>. QED
    BY <1>0, <1>7, <2>1 DEF call, release, TypeOK
<1>9. RefsExact'
  BY <1>0 DEF CountInv, RefsExact, PointersTo
<1>10. PointersLive'
  <2>1. \A p \in Pointers : pointsTo[p] # Nothing =>
           pointsTo[p] \in Objects /\ state'[pointsTo[p]] = state[pointsTo[p]]
    BY <1>2, <1>4 DEF TypeOK
  <2>2. \A u \in Threads : pc'[u] = "count" <=> pc[u] = "count"
    BY <1>0, <1>3
  <2>. QED
    BY <1>0, <2>1, <2>2 DEF CountInv, PointersLive, Exists
<1>11. CountingOwn'
  <2>1. ASSUME NEW u \in Threads, pc'[u] = "count"
        PROVE  /\ state'[Mine(u)] = "raw"
               /\ \A p \in Pointers : pointsTo[p] = Mine(u) => p = Obj(u)
    <3>1. pc[u] = "count"
      BY <1>3, <2>1
    <3>2. /\ state[Mine(u)] = "raw"
          /\ \A p \in Pointers : pointsTo[p] = Mine(u) => p = Obj(u)
      BY <3>1 DEF CountInv, CountingOwn
    <3>3. Mine(u) \in Objects
      BY <3>1, PointerNames DEF StackKept, Point, HasObject, Mine, TypeOK
    <3>. QED
      BY <1>1, <1>2, <3>2, <3>3
  <2>. QED
    BY <1>0, <2>1 DEF CountingOwn, Mine
<1>12. DeletingOwn'
  <2>1. \A u \in Threads \ {t} : pc[u] \in {"uncount", "destroy"} => dying[u] # o
    BY <1>0 DEF CountInv, DeletingOwn, o
  <2>2. ASSUME NEW u \in Threads
        PROVE  /\ pc'[u] = "uncount" => dying[u] \in Objects /\ state'[dying[u]] = "dying"
               /\ pc'[u] = "destroy" => dying[u] \in Objects /\ state'[dying[u]] = "gone"
    <3>1. CASE u = t
      BY <1>1, <1>2, <1>3, <3>1 DEF o
    <3>2. CASE u # t
      BY <1>2, <1>3, <2>1, <3>2 DEF CountInv, DeletingOwn
    <3>. QED
      BY <3>1, <3>2
  <2>3. ASSUME NEW u \in Threads, NEW w \in Threads \ {u},
               {pc'[u], pc'[w]} \subseteq {"uncount", "destroy"}
        PROVE  dying[u] # dying[w]
    <3>1. {pc[u], pc[w]} \subseteq {"uncount", "destroy"}
      BY <1>0, <1>3, <2>3
    <3>. QED
      BY <3>1 DEF CountInv, DeletingOwn
  <2>. QED
    BY <1>0, <2>2, <2>3 DEF release, DeletingOwn
<1>13. NoneForgotten'
  <2>1. \A x \in Objects : Exists(x)' => refs'[x] > 0
    BY <1>0, <1>2 DEF CountInv, NoneForgotten, Exists
  <2>2. ASSUME NEW x \in Objects, state'[x] \in {"dying", "gone"}
        PROVE  \E u \in Threads : pc'[u] \in {"uncount", "destroy"} /\ dying'[u] = x
    <3>1. state[x] \in {"dying", "gone"}
      BY <1>1, <1>2, <2>2
    <3>2. PICK u \in Threads : pc[u] \in {"uncount", "destroy"} /\ dying[u] = x
      BY <3>1 DEF CountInv, NoneForgotten
    <3>. QED
      BY <1>0, <1>3, <3>2 DEF release
  <2>. QED
    BY <2>1, <2>2 DEF NoneForgotten
<1>14. StackKept'
  <2>1. \A u \in Threads : Point(u)' = Point(u)
    BY <1>0, <1>3 DEF release, Point
  <2>. QED
    BY <1>0, <2>1 DEF StackKept, Mine
<1>15. PlacesKept'
  BY <1>0 DEF call, PlacesKept
<1>. QED
  BY <1>7, <1>8, <1>9, <1>10, <1>11, <1>12, <1>13, <1>14, <1>15 DEF CountInv

LEMMA DestroyKeeps == ASSUME ComInv, NEW t \in Threads, Destroy(t) PROVE ComInv'
<1>. DEFINE o == dying[t]
<1>. USE DEF ComInv
<1>0. /\ UNCHANGED <<refs, count, locks, pointsTo, call>>
      /\ pc[t] = "destroy"
      /\ state' = [state EXCEPT ![o] = "free"]
      /\ kind' = [kind EXCEPT ![o] = "engine"]
      /\ dying' = [dying EXCEPT ![t] = Nothing]
      /\ after' = [after EXCEPT ![t] = "idle"]
      /\ pc' = [pc EXCEPT ![t] = after[t]]
  BY DEF Destroy, Goto
<1>1. o \in Objects /\ state[o] = "gone"
  BY <1>0 DEF CountInv, DeletingOwn
<1>2. \A x \in Objects : state'[x] = IF x = o THEN "free" ELSE state[x]
  BY <1>0 DEF TypeOK
<1>3. \A u \in Threads : /\ pc'[u] = IF u = t THEN after[t] ELSE pc[u]
                         /\ dying'[u] = IF u = t THEN Nothing ELSE dying[u]
                         /\ after'[u] = IF u = t THEN "idle" ELSE after[u]
  BY <1>0 DEF TypeOK
<1>4. after[t] \in {"idle", "drop object", "next", "give up"}
  BY DEF TypeOK
<1>. HIDE DEF o
<1>5. \A p \in Pointers : pointsTo[p] # o
  <2>1. ASSUME NEW p \in Pointers, pointsTo[p] = o PROVE FALSE
    <3>1. pointsTo[p] # Nothing
      BY <1>1, <2>1, ComAssumption
    <3>2. Exists(pointsTo[p])
      BY <3>1 DEF CountInv, PointersLive
    <3>. QED
      BY <1>1, <2>1, <3>2 DEF Exists
  <2>. QED
    BY <2>1
<1>6. TypeOK'
  <2>1. state' \in [Objects -> {"free", "raw", "live", "dying", "gone"}]
    BY <1>0, <1>1 DEF TypeOK
  <2>2. kind' \in [Objects -> Kinds]
    BY <1>0, <1>1 DEF Kinds, TypeOK
  <2>3. dying' \in [Threads -> Objects \cup {Nothing}]
    BY <1>0 DEF TypeOK
  <2>4. after' \in [Threads -> {"idle", "drop object", "next", "give up"}]
    BY <1>0 DEF TypeOK
  <2>5. pc' \in [Threads -> ProgramPoints]
    BY <1>0, <1>4 DEF TypeOK
  <2>. QED
    BY <1>0, <2>1, <2>2, <2>3, <2>4, <2>5 DEF call, TypeOK
<1>7. RefsExact'
  BY <1>0 DEF CountInv, RefsExact, PointersTo
<1>8. CountExact'
  <2>1. \A x \in Objects : Counted(x)' <=> Counted(x)
    BY <1>1, <1>2 DEF Counted
  <2>. QED
    BY <1>0, <2>1, SameCounted DEF CountInv
<1>9. PointersLive'
  <2>1. \A p \in Pointers : pointsTo[p] # Nothing =>
           pointsTo[p] \in Objects /\ state'[pointsTo[p]] = state[pointsTo[p]]
    BY <1>2, <1>5 DEF TypeOK
  <2>2. \A u \in Threads : pc'[u] = "count" <=> pc[u] = "count"
    BY <1>0, <1>3, <1>4
  <2>. QED
    BY <1>0, <2>1, <2>2 DEF CountInv, PointersLive, Exists
<1>10. CountingOwn'
  <2>1. ASSUME NEW u \in Threads, pc'[u] = "count"
        PROVE  /\ state'[Mine(u)] = "raw"
               /\ \A p \in Pointers : pointsTo[p] = Mine(u) => p = Obj(u)
    <3>1. pc[u] = "count"
      BY <1>3, <1>4, <2>1
    <3>2. /\ state[Mine(u)] = "raw"
          /\ \A p \in Pointers : pointsTo[p] = Mine(u) => p = Obj(u)
      BY <3>1 DEF CountInv, CountingOwn
    <3>3. Mine(u) \in Objects
      BY <3>1, PointerNames DEF StackKept, Point, HasObject, Mine, TypeOK
    <3>. QED
      BY <1>1, <1>2, <3>2, <3>3
  <2>. QED
    BY <1>0, <2>1 DEF CountingOwn, Mine
<1>11. ASSUME NEW u \in Threads, pc'[u] \in {"uncount", "destroy"}
       PROVE  u # t /\ pc'[u] = pc[u] /\ dying'[u] = dying[u] /\ dying[u] # o
  <2>1. u # t
    BY <1>3, <1>4, <1>11
  <2>2. pc'[u] = pc[u] /\ dying'[u] = dying[u]
    BY <1>3, <2>1
  <2>3. {pc[u], pc[t]} \subseteq {"uncount", "destroy"}
    BY <1>0, <1>11, <2>2
  <2>. QED
    BY <2>1, <2>2, <2>3 DEF CountInv, DeletingOwn, o
<1>12. DeletingOwn'
  <2>1. ASSUME NEW u \in Threads
        PROVE  /\ pc'[u] = "uncount" => dying'[u] \in Objects /\ state'[dying'[u]] = "dying"
               /\ pc'[u] = "destroy" => dying'[u] \in Objects /\ state'[dying'[u]] = "gone"
    BY <1>2, <1>11 DEF CountInv, DeletingOwn
  <2>2. ASSUME NEW u \in Threads, NEW w \in Threads \ {u},
               {pc'[u], pc'[w]} \subseteq {"uncount", "destroy"}
        PROVE  dying'[u] # dying'[w]
    <3>1. /\ {pc[u], pc[w]} \subseteq {"uncount", "destroy"}
          /\ dying'[u] = dying[u] /\ dying'[w] = dying[w]
      BY <1>11, <2>2
    <3>. QED
      BY <3>1 DEF CountInv, DeletingOwn
  <2>. QED
    BY <2>1, <2>2 DEF DeletingOwn
<1>13. NoneForgotten'
  <2>1. \A x \in Objects : Exists(x)' => refs'[x] > 0
    BY <1>0, <1>2 DEF CountInv, NoneForgotten, Exists
  <2>2. ASSUME NEW x \in Objects, state'[x] \in {"dying", "gone"}
        PROVE  \E u \in Threads : pc'[u] \in {"uncount", "destroy"} /\ dying'[u] = x
    <3>1. state[x] \in {"dying", "gone"} /\ x # o
      BY <1>2, <2>2
    <3>2. PICK u \in Threads : pc[u] \in {"uncount", "destroy"} /\ dying[u] = x
      BY <3>1 DEF CountInv, NoneForgotten
    <3>3. u # t
      BY <3>1, <3>2 DEF o
    <3>. QED
      BY <1>3, <3>2, <3>3
  <2>. QED
    BY <2>1, <2>2 DEF NoneForgotten
<1>14. StackKept'
  <2>1. \A u \in Threads : Point(u)' = Point(u)
    BY <1>0, <1>3, <1>4 DEF Point
  <2>. QED
    BY <1>0, <2>1 DEF StackKept, Mine
<1>15. PlacesKept'
  BY <1>0 DEF call, PlacesKept
<1>. QED
  BY <1>6, <1>7, <1>8, <1>9, <1>10, <1>12, <1>13, <1>14, <1>15 DEF CountInv

-----------------------------------------------------------------------------
(* The theorems. *)

LEMMA InitComInv == Init => ComInv
<1>. SUFFICES ASSUME Init PROVE ComInv
  OBVIOUS
<1>. USE DEF Init
<1>1. TypeOK
  BY ComAssumption DEF TypeOK, Kinds
<1>2. \A p \in Pointers : pointsTo[p] = Nothing
  OBVIOUS
<1>3. RefsExact
  <2>1. \A o \in Objects : PointersTo(o) = {}
    BY <1>2, ComAssumption DEF PointersTo
  <2>. QED
    BY <2>1, FS_EmptySet DEF RefsExact
<1>4. CountExact
  <2>1. CountedObjects = {}
    BY DEF CountedObjects, Counted
  <2>. QED
    BY <2>1, FS_EmptySet DEF CountExact
<1>5. PointersLive /\ CountingOwn /\ DeletingOwn /\ NoneForgotten /\ PlacesKept
  BY <1>2 DEF PointersLive, CountingOwn, DeletingOwn, NoneForgotten, Exists, PlacesKept
<1>6. StackKept
  BY <1>2, PointerNames DEF StackKept, Point, HasObject, HasInterface, Mine
<1>. QED
  BY <1>1, <1>3, <1>4, <1>5, <1>6 DEF ComInv, CountInv

LEMMA StutterComInv == ComInv /\ UNCHANGED vars => ComInv'
<1>. SUFFICES ASSUME ComInv, UNCHANGED vars PROVE ComInv'
  OBVIOUS
<1>. USE DEF vars, objects, call, release
<1>1. TypeOK' /\ PlacesKept' /\ StackKept'
  BY DEF ComInv, TypeOK, PlacesKept, StackKept, Mine, Point
<1>2. RefsExact' /\ CountExact'
  BY DEF ComInv, CountInv, RefsExact, PointersTo, CountExact, CountedObjects, Counted
<1>3. PointersLive' /\ CountingOwn' /\ DeletingOwn' /\ NoneForgotten'
  BY DEF ComInv, CountInv, PointersLive, CountingOwn, DeletingOwn, NoneForgotten, Exists, Mine
<1>. QED
  BY <1>1, <1>2, <1>3 DEF ComInv, CountInv

LEMMA NextComInv == ComInv /\ [Next]_vars => ComInv'
<1>. SUFFICES ASSUME ComInv, [Next]_vars PROVE ComInv'
  OBVIOUS
<1>1. ASSUME NEW t \in Threads, Begin(t) PROVE ComInv'
  BY <1>1, BeginKeeps
<1>2. ASSUME NEW t \in Threads, HostReleases(t) PROVE ComInv'
  BY <1>2, HostReleasesKeeps
<1>3. ASSUME NEW t \in Threads, Making(t) PROVE ComInv'
  BY <1>3, ConstructKeeps, CountKeeps, QueryKeeps, PassKeeps DEF Making
<1>4. ASSUME NEW t \in Threads, Ending(t) PROVE ComInv'
  BY <1>4, StackDropKeeps, UncountKeeps, DestroyKeeps DEF Ending
<1>5. ASSUME NEW t \in Threads, MakeNext(t) PROVE ComInv'
  BY <1>5, MakeNextKeeps
<1>6. ASSUME NEW t \in Threads, GiveUp(t) PROVE ComInv'
  BY <1>6, GiveUpKeeps
<1>7. CASE HostCopies
  BY <1>7, HostCopiesKeeps
<1>8. CASE HostLocks
  BY <1>8, HostLocksKeeps
<1>9. CASE UNCHANGED vars
  BY <1>9, StutterComInv
<1>. QED
  BY <1>1, <1>2, <1>3, <1>4, <1>5, <1>6, <1>7, <1>8, <1>9 DEF Next

LEMMA ComInvariant == Spec => []ComInv
  BY InitComInv, NextComInv, PTL DEF Spec

\* The reference counts and the counter of objects stay natural numbers, and
\* every pointer points to an object or nowhere, in every history.
THEOREM ObjectsTypeOK == Spec => []TypeOK
<1>1. ComInv => TypeOK
  BY DEF ComInv
<1>. QED
  BY <1>1, ComInvariant, PTL

\* No pointer, of a thread or of the host, points to an object that has been
\* deleted or is being deleted.
THEOREM NeverDangling == Spec => []NoDangling
<1>1. ComInv => NoDangling
  BY DEF ComInv, CountInv, PointersLive, NoDangling
<1>. QED
  BY <1>1, ComInvariant, PTL

\* DllCanUnloadNow says no as long as somebody outside points into the DLL or
\* has locked it.
THEOREM LoadedWhileUsed == Spec => []StaysLoaded
<1>1. ASSUME ComInv PROVE StaysLoaded
  <2>0. ComInv
    BY <1>1
  <2>. USE DEF ComInv, CountInv
  <2>. SUFFICES ASSUME count = 0
                PROVE  locks = 0 /\ \A p \in Outside : pointsTo[p] = Nothing
    BY DEF StaysLoaded, CanUnloadNow
  <2>1. locks \in 0..MaxLocks
    BY <2>0 DEF TypeOK
  <2>2. locks \in Nat
    BY <2>1, ComAssumption
  <2>3. locks = 0 /\ Cardinality(CountedObjects) = 0
    BY <2>0, <2>2, FiniteCounted DEF CountExact
  <2>4. CountedObjects = {}
    BY <2>3, FiniteCounted
  <2>5. ASSUME NEW p \in Outside, pointsTo[p] # Nothing PROVE FALSE
    <3>1. p \in Pointers /\ \A t \in Threads : p # Obj(t)
      BY PointerNames
    <3>2. pointsTo[p] \in Objects /\ state[pointsTo[p]] = "live"
      <4>1. pointsTo[p] \in Objects
        BY <2>0, <2>5, <3>1 DEF TypeOK
      <4>2. state[pointsTo[p]] = "live"
        BY <2>0, <2>5, <3>1 DEF PointersLive
      <4>. QED
        BY <4>1, <4>2
    <3>. QED
      BY <2>4, <3>2 DEF CountedObjects, Counted
  <2>. QED
    BY <2>3, <2>5
<1>. QED
  BY <1>1, ComInvariant, PTL

\* When no call is under way, nothing is left that the host does not point to,
\* and the counter is what the host has and has locked.
THEOREM NothingEverLeaks == Spec => []NothingLeaks
<1>1. ASSUME ComInv PROVE NothingLeaks
  <2>0. ComInv
    BY <1>1
  <2>. USE DEF ComInv, CountInv
  <2>. SUFFICES ASSUME \A t \in Threads : pc[t] = "idle"
                PROVE  /\ \A o \in Objects : state[o] # "free" =>
                             \E p \in Outside : pointsTo[p] = o
                       /\ count = locks + Cardinality({o \in Objects : state[o] # "free"})
    BY DEF NothingLeaks
  <2>1. \A t \in Threads : pointsTo[Obj(t)] = Nothing /\ pointsTo[Itf(t)] = Nothing
    BY <2>0 DEF StackKept, Point, HasObject, HasInterface, Mine
  <2>2. ASSUME NEW o \in Objects, state[o] # "free"
        PROVE  state[o] = "live" /\ \E p \in Outside : pointsTo[p] = o
    <3>1. state[o] \notin {"dying", "gone"}
      BY <2>0 DEF NoneForgotten
    <3>2. Exists(o)
      BY <2>0, <2>2, <3>1 DEF Exists, TypeOK
    <3>3. refs[o] > 0 /\ refs[o] = Cardinality(PointersTo(o))
      BY <2>0, <3>2 DEF NoneForgotten, RefsExact
    <3>4. PointersTo(o) # {}
      BY <3>3, FinitePointersTo
    <3>5. PICK p \in Pointers : pointsTo[p] = o
      BY <3>4 DEF PointersTo
    <3>6. pointsTo[p] # Nothing
      BY <3>5, ComAssumption
    <3>7. p \in Outside
      BY <2>1, <3>6, PointerNames
    <3>8. state[pointsTo[p]] = "live"
      BY <2>0, <3>6 DEF PointersLive
    <3>. QED
      BY <3>5, <3>7, <3>8
  <2>3. {o \in Objects : state[o] # "free"} = CountedObjects
    BY <2>2 DEF CountedObjects, Counted
  <2>. QED
    BY <2>0, <2>2, <2>3 DEF CountExact
<1>. QED
  BY <1>1, ComInvariant, PTL

=============================================================================
