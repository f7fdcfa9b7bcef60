----------------------------- MODULE ComObjects -----------------------------
(***************************************************************************)
(* The life of the DLL's COM objects: com::object, IUnknownImpl,           *)
(* interface_ptr and object_counter (com.hpp), and the calls that make     *)
(* objects.                                                                *)
(*                                                                         *)
(* An object is made in the same way everywhere: new, then it is counted,  *)
(* then its interface is asked for, and the reference it was born with     *)
(* goes when com::object is destroyed.  A factory and CreateInstance ask   *)
(* straight into the caller's pointer; Clone, OpenKey and create_token     *)
(* keep an interface_ptr in between.  Each of these steps may fail, and    *)
(* then what was made so far must go.  Next makes several tokens, and      *)
(* gives up all of them when one cannot be made.  Any thread of the host   *)
(* may be in any call: the objects are registered for "Both".              *)
(*                                                                         *)
(* A pointer is a place that holds a reference: on the stack of a thread,  *)
(* or outside the DLL (the host's, or that of a SAPI token object, which   *)
(* keeps the data key it was initialized from).                            *)
(*                                                                         *)
(* Abstracted: what the objects are for, among it the position of an       *)
(* enumerator and the attributes of a token.                               *)
(***************************************************************************)
EXTENDS Integers, FiniteSets

CONSTANTS
    Threads,     \* threads of the host
    Objects,     \* places for objects; one is used again when it is free
    Outside,     \* places outside the DLL for pointers
    Nothing,     \* where a null pointer points, and what a null one is
    MaxLocks     \* bound: calls of LockServer(TRUE) not yet undone

Stack == Threads \X {"object", "interface"}
Pointers == Stack \cup Outside

ASSUME ComAssumption ==
    /\ IsFiniteSet(Threads) /\ IsFiniteSet(Objects) /\ IsFiniteSet(Outside)
    /\ Nothing \notin Objects \cup Outside
    /\ Stack \cap Outside = {}
    /\ MaxLocks \in Nat

VARIABLES
    state,     \* of each object: "free", "raw", "live", "dying" or "gone"
    kind,      \* its class
    refs,      \* ref_count_
    count,     \* object_counter::count_
    locks,     \* calls of LockServer(TRUE) less those of LockServer(FALSE)
    pointsTo,  \* what each pointer points to
    pc,        \* what each thread is about to do
    via,       \* the pointer its call was made through
    making,    \* the class it makes an object of
    into,      \* the caller's pointers its call has still to fill
    got,       \* those it has filled
    ok,        \* its call has not failed yet
    dying,     \* the object it is deleting
    after      \* where it goes on after Release

objects == <<state, kind, refs>>
call == <<via, making, into, got, ok>>
release == <<dying, after>>
vars == <<objects, count, locks, pointsTo, pc, call, release>>

Factories == {"engine factory", "enumerator factory"}
Kinds == Factories \cup {"engine", "enumerator", "token", "key"}

\* What the methods of an object make: CreateInstance; Clone, Next and Item;
\* OpenKey.  DllGetClassObject makes factories.
Makes(k) ==
    CASE k = "engine factory" -> {"engine"}
      [] k = "enumerator factory" -> {"enumerator"}
      [] k = "enumerator" -> {"enumerator", "token"}
      [] k = "token" -> {"key"}
      [] OTHER -> {}

\* "count" is between new and object_counter::increment, "destroy" between
\* object_counter::decrement and the end of delete.
ProgramPoints == {"idle", "construct", "count", "query", "pass", "drop interface",
                  "drop object", "uncount", "destroy", "next", "give up"}

\* The com::object and the interface_ptr of thread t.
Obj(t) == <<t, "object">>
Itf(t) == <<t, "interface">>
Mine(t) == pointsTo[Obj(t)]

Exists(o) == state[o] \in {"raw", "live"}
Counted(o) == state[o] \in {"live", "dying"}

Init ==
    /\ state = [o \in Objects |-> "free"]
    /\ kind = [o \in Objects |-> "engine"]
    /\ refs = [o \in Objects |-> 0]
    /\ count = 0 /\ locks = 0
    /\ pointsTo = [p \in Pointers |-> Nothing]
    /\ pc = [t \in Threads |-> "idle"]
    /\ via = [t \in Threads |-> Nothing]
    /\ making = [t \in Threads |-> "engine"]
    /\ into = [t \in Threads |-> {}]
    /\ got = [t \in Threads |-> {}]
    /\ ok = [t \in Threads |-> TRUE]
    /\ dying = [t \in Threads |-> Nothing]
    /\ after = [t \in Threads |-> "idle"]

Goto(t, point) == pc' = [pc EXCEPT ![t] = point]

\* Pointers the host has been given, and those no call goes through.
Held == {p \in Outside : pointsTo[p] # Nothing /\ \A t \in Threads : p \notin got[t]}
Resting == {p \in Held : \A t \in Threads : via[t] # p}
Empty == {p \in Outside : pointsTo[p] = Nothing /\ \A t \in Threads : p \notin into[t]}

\* AddRef for a pointer p to o, which a mutant forgets.
NotReferenced(o) == refs[o]
Referenced(o) == refs[o] + 1

AddRef(p, o) ==
    /\ refs' = [refs EXCEPT ![o] = Referenced(o)]
    /\ pointsTo' = [pointsTo EXCEPT ![p] = o]

\* Release through p: the count goes down, and whoever takes it to zero
\* deletes the object before it goes on.
Release(t, p, next) ==
    LET o == pointsTo[p] IN
    /\ pointsTo' = [pointsTo EXCEPT ![p] = Nothing]
    /\ refs' = [refs EXCEPT ![o] = @ - 1]
    /\ IF refs[o] = 1
       THEN /\ state' = [state EXCEPT ![o] = "dying"]
            /\ dying' = [dying EXCEPT ![t] = o]
            /\ after' = [after EXCEPT ![t] = next]
            /\ Goto(t, "uncount")
       ELSE /\ UNCHANGED <<state, release>>
            /\ Goto(t, next)
    /\ UNCHANGED <<kind, count, locks>>

-----------------------------------------------------------------------------
(* The host. *)

\* DllGetClassObject, or a method of an object that makes others.
Begin(t) ==
    /\ pc[t] = "idle"
    /\ \/ /\ \E k \in Factories : making' = [making EXCEPT ![t] = k]
          /\ UNCHANGED via
       \/ \E p \in Held : \E k \in Makes(kind[pointsTo[p]]) :
             /\ making' = [making EXCEPT ![t] = k]
             /\ via' = [via EXCEPT ![t] = p]
    /\ \E places \in SUBSET Empty \ {{}} :
          /\ making'[t] # "token" => Cardinality(places) = 1
          /\ into' = [into EXCEPT ![t] = places]
    /\ Goto(t, "construct")
    /\ UNCHANGED <<objects, count, locks, pointsTo, got, ok, release>>

\* The host releases a pointer, copies one (AddRef, or QueryInterface for an
\* interface the object has), or calls LockServer.
HostReleases(t) ==
    /\ pc[t] = "idle"
    /\ \E p \in Resting : Release(t, p, "idle")
    /\ UNCHANGED call

HostCopies ==
    /\ \E p \in Held, q \in Empty : AddRef(q, pointsTo[p])
    /\ UNCHANGED <<state, kind, count, locks, pc, call, release>>

LockNotCounted == count
LockCounted == count + 1

HostLocks ==
    /\ \E p \in Held : kind[pointsTo[p]] \in Factories
    /\ \/ locks < MaxLocks /\ locks' = locks + 1 /\ count' = LockCounted
       \/ locks > 0 /\ locks' = locks - 1 /\ count' = count - 1
    /\ UNCHANGED <<objects, pointsTo, pc, call, release>>

-----------------------------------------------------------------------------
(* The making of one object. *)

\* new IUnknownImpl<T>: the object has its first reference and is not counted
\* yet.  Or there is no memory for it.
Construct(t) ==
    /\ pc[t] = "construct"
    /\ \/ \E o \in Objects :
             /\ state[o] = "free"
             /\ state' = [state EXCEPT ![o] = "raw"]
             /\ kind' = [kind EXCEPT ![o] = making[t]]
             /\ refs' = [refs EXCEPT ![o] = 1]
             /\ pointsTo' = [pointsTo EXCEPT ![Obj(t)] = o]
             /\ Goto(t, "count")
       \/ /\ Goto(t, "give up")
          /\ UNCHANGED <<objects, pointsTo>>
    /\ UNCHANGED <<count, locks, call, release>>

\* object_counter::increment
Count(t) ==
    /\ pc[t] = "count"
    /\ state' = [state EXCEPT ![Mine(t)] = "live"]
    /\ count' = count + 1
    /\ Goto(t, "query")
    /\ UNCHANGED <<kind, refs, locks, pointsTo, call, release>>

\* Factories and CreateInstance ask for the caller's interface.
Direct(t) == \A p \in {via[t]} \cap Outside : kind[pointsTo[p]] \in Factories

\* Where a call goes on that has failed: ~object runs (not for a mutant).
WithoutRelease == "next"
AfterFailure == "drop object"

\* One of the caller's pointers is filled with a reference to the object.
Fill(t) ==
    \E p \in into[t] :
        /\ AddRef(p, Mine(t))
        /\ into' = [into EXCEPT ![t] = @ \ {p}]
        /\ got' = [got EXCEPT ![t] = @ \cup {p}]
        /\ UNCHANGED ok

Fail(t) ==
    /\ ok' = [ok EXCEPT ![t] = FALSE]
    /\ UNCHANGED <<refs, pointsTo, into, got>>

\* QueryInterface.  It fails for an interface the object has not; before it,
\* the copying of attributes and lists may fail for want of memory.
Query(t) ==
    /\ pc[t] = "query"
    /\ \/ Direct(t) /\ Fill(t) /\ Goto(t, "drop object")
       \/ /\ ~Direct(t)
          /\ AddRef(Itf(t), Mine(t))
          /\ Goto(t, "pass")
          /\ UNCHANGED <<into, got, ok>>
       \/ Fail(t) /\ Goto(t, AfterFailure)
    /\ UNCHANGED <<state, kind, count, locks, via, making, release>>

\* interface_ptr::get for the caller, or SAPI's InitFromDataKey, which may
\* refuse.
Pass(t) ==
    /\ pc[t] = "pass"
    /\ \/ Fill(t)
       \/ making[t] = "token" /\ Fail(t)
    /\ Goto(t, "drop interface")
    /\ UNCHANGED <<state, kind, count, locks, via, making, release>>

\* ~interface_ptr and ~object, whether or not all went well.
DropInterface(t) ==
    /\ pc[t] = "drop interface"
    /\ Release(t, Itf(t), "drop object")
    /\ UNCHANGED call

DropObject(t) ==
    /\ pc[t] = "drop object"
    /\ Release(t, Obj(t), "next")
    /\ UNCHANGED call

-----------------------------------------------------------------------------
(* The end of an object. *)

\* ~IUnknownImpl: the count goes down before ~T runs and the memory goes.
Uncounted == count - 1

Uncount(t) ==
    /\ pc[t] = "uncount"
    /\ state' = [state EXCEPT ![dying[t]] = "gone"]
    /\ count' = Uncounted
    /\ Goto(t, "destroy")
    /\ UNCHANGED <<kind, refs, locks, pointsTo, call, release>>

Destroy(t) ==
    /\ pc[t] = "destroy"
    /\ state' = [state EXCEPT ![dying[t]] = "free"]
    /\ kind' = [kind EXCEPT ![dying[t]] = "engine"]
    /\ dying' = [dying EXCEPT ![t] = Nothing]
    /\ after' = [after EXCEPT ![t] = "idle"]
    /\ Goto(t, after[t])
    /\ UNCHANGED <<refs, count, locks, pointsTo, call>>

-----------------------------------------------------------------------------
(* The end of a call. *)

Return(t) ==
    /\ Goto(t, "idle")
    /\ via' = [via EXCEPT ![t] = Nothing]
    /\ making' = [making EXCEPT ![t] = "engine"]
    /\ into' = [into EXCEPT ![t] = {}]
    /\ got' = [got EXCEPT ![t] = {}]
    /\ ok' = [ok EXCEPT ![t] = TRUE]

\* One object is made.  The next token, or the caller gets them all.
MakeNext(t) ==
    /\ pc[t] = "next"
    /\ \/ ok[t] /\ into[t] # {} /\ Goto(t, "construct") /\ UNCHANGED call
       \/ ok[t] /\ into[t] = {} /\ Return(t)
       \/ ~ok[t] /\ Goto(t, "give up") /\ UNCHANGED call
    /\ UNCHANGED <<objects, count, locks, pointsTo, release>>

\* The call fails: the tokens it has made go, one by one, and the caller gets
\* none of them.
GiveUp(t) ==
    /\ pc[t] = "give up"
    /\ \/ \E p \in got[t] :
             /\ Release(t, p, "give up")
             /\ got' = [got EXCEPT ![t] = @ \ {p}]
             /\ UNCHANGED <<via, making, into, ok>>
       \/ /\ got[t] = {}
          /\ Return(t)
          /\ UNCHANGED <<objects, count, locks, pointsTo, release>>

-----------------------------------------------------------------------------
Making(t) == Construct(t) \/ Count(t) \/ Query(t) \/ Pass(t)
Ending(t) == DropInterface(t) \/ DropObject(t) \/ Uncount(t) \/ Destroy(t)

Next ==
    \/ \E t \in Threads :
          Begin(t) \/ HostReleases(t) \/ Making(t) \/ Ending(t) \/ MakeNext(t) \/ GiveUp(t)
    \/ HostCopies
    \/ HostLocks

Spec == Init /\ [][Next]_vars

-----------------------------------------------------------------------------
TypeOK ==
    /\ state \in [Objects -> {"free", "raw", "live", "dying", "gone"}]
    /\ kind \in [Objects -> Kinds]
    /\ refs \in [Objects -> Nat]
    /\ count \in Nat
    /\ locks \in 0..MaxLocks
    /\ pointsTo \in [Pointers -> Objects \cup {Nothing}]
    /\ pc \in [Threads -> ProgramPoints]
    /\ via \in [Threads -> Outside \cup {Nothing}]
    /\ making \in [Threads -> Kinds]
    /\ into \in [Threads -> SUBSET Outside]
    /\ got \in [Threads -> SUBSET Outside]
    /\ ok \in [Threads -> BOOLEAN]
    /\ dying \in [Threads -> Objects \cup {Nothing}]
    /\ after \in [Threads -> {"idle", "drop object", "next", "give up"}]

\* Nobody, in the DLL or outside, has a pointer to an object that is being
\* deleted or has been, whichever threads copy and release it at once.
NoDangling ==
    \A p \in Pointers : pointsTo[p] # Nothing => Exists(pointsTo[p])

\* DllCanUnloadNow does not say S_OK while the host has a pointer into the
\* DLL, has one coming to it, or holds a lock.
CanUnloadNow == count = 0

StaysLoaded ==
    CanUnloadNow => locks = 0 /\ \A p \in Outside : pointsTo[p] = Nothing

\* However calls went, whichever of their steps failed: when none is under
\* way, only what is pointed to from outside is left, and it and the locks
\* are what is counted.  A DLL nobody uses can be unloaded.
NothingLeaks ==
    (\A t \in Threads : pc[t] = "idle") =>
        /\ \A o \in Objects : state[o] # "free" => \E p \in Outside : pointsTo[p] = o
        /\ count = locks + Cardinality({o \in Objects : state[o] # "free"})

=============================================================================
