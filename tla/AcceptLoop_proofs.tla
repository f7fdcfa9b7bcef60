-------------------------- MODULE AcceptLoop_proofs --------------------------
(***************************************************************************)
(* What the accept loop keeps true for any number of hosts, any idle limit *)
(* and any number of failures.                                             *)
(*                                                                         *)
(* The invariant says where a connection is: it listens, is handed over or *)
(* has its thread, one at a time, and a host comes back only when it is in *)
(* none of these places.  With that, a thread is started where there is    *)
(* none, so g_active_clients counts the threads past their first statement *)
(* exactly; and a count of zero, read when no thread is on its way to that *)
(* statement, means that nobody is served.                                 *)
(***************************************************************************)
EXTENDS AcceptLoop, FiniteSetTheorems, TLAPS

Serving == {c \in Clients : thread[c] \in Counted}

Ranges ==
    /\ mpc \in Looping \cup {"leave loop", "exited"}
    /\ listening \in Clients \cup {Nobody, NoPipe}
    /\ served \in Clients \cup {Nobody}
    /\ tooLong \in BOOLEAN
    /\ why \in {"none", "idle", "shutdown"}
    /\ shutdown \in BOOLEAN
    /\ age \in 0..IdleTicks + 1
    /\ thread \in [Clients -> {"none", "start"} \cup Counted]
    /\ host \in [Clients -> {"away", "wants", "in", "left", "cut"}]
    /\ failures \in 0..MaxFailures

CountInv ==
    /\ active \in 0..Cardinality(Clients)
    /\ mpc # "exited" => active = Cardinality(Serving)

PlaceInv ==
    /\ mpc = "next" => listening \in Clients
    /\ mpc = "hand over" <=> served # Nobody
    /\ mpc = "exited" => \A c \in Clients : thread[c] = "none"
    /\ \A c \in Clients : listening = c => thread[c] = "none" /\ served # c
    /\ \A c \in Clients : served = c => thread[c] = "none"
    /\ \A c \in Clients : host[c] = "wants" => Forgotten(c)

IdleInv ==
    /\ mpc = "decide" => \A c \in Clients : thread[c] # "start"
    /\ IdleExitServesNobody

AcceptInv == Ranges /\ CountInv /\ PlaceInv /\ NoHostLost /\ IdleInv

LEMMA AcceptInit == Init => AcceptInv
<1> SUFFICES ASSUME Init PROVE AcceptInv
  OBVIOUS
<1>1. Ranges
  <2>1. 0 \in 0..IdleTicks + 1 /\ 0 \in 0..MaxFailures
    BY AcceptAssumption
  <2> QED
    BY <2>1 DEF Init, Ranges, Looping
<1>2. PlaceInv /\ NoHostLost /\ IdleInv
  BY AcceptAssumption DEF Init, PlaceInv, NoHostLost, IdleInv, IdleExitServesNobody, Forgotten
<1>3. CountInv
  <2>1. Serving = {}
    BY DEF Init, Serving, Counted
  <2>2. Cardinality(Serving) = 0 /\ Cardinality(Clients) \in Nat
    BY <2>1, AcceptAssumption, FS_EmptySet, FS_CardinalityType
  <2> QED
    BY <2>2 DEF Init, CountInv
<1> QED
  BY <1>1, <1>2, <1>3 DEF AcceptInv

-----------------------------------------------------------------------------
(* The count. *)

LEMMA ServingIsFinite ==
    IsFiniteSet(Serving) /\ Cardinality(Serving) \in 0..Cardinality(Clients)
<1>1. Serving \subseteq Clients
  BY DEF Serving
<1> QED
  BY <1>1, AcceptAssumption, FS_Subset, FS_CardinalityType

\* A step that neither counts nor uncounts a thread.
LEMMA SameCount ==
    ASSUME CountInv, active' = active,
           mpc' # "exited" => mpc # "exited" /\ Serving' = Serving
    PROVE  CountInv'
BY DEF CountInv

LEMMA StartCounts ==
    ASSUME Ranges, CountInv, PlaceInv, NEW c \in Clients, StartThread(c)
    PROVE  CountInv'
<1>1. c \notin Serving /\ Serving' = Serving \cup {c} /\ mpc # "exited"
  BY DEF StartThread, ThreadGoto, Serving, Counted, Ranges, PlaceInv
<1>2. Cardinality(Serving') = Cardinality(Serving) + 1
  BY <1>1, ServingIsFinite, FS_AddElement
<1>3. Serving' \subseteq Clients
  BY DEF Serving
<1>4. Cardinality(Serving') \in 0..Cardinality(Clients)
  BY <1>3, AcceptAssumption, FS_Subset, FS_CardinalityType
<1> QED
  BY <1>1, <1>2, <1>4 DEF StartThread, CountInv

LEMMA UncountCounts ==
    ASSUME Ranges, CountInv, PlaceInv, NEW c \in Clients, Uncount(c)
    PROVE  CountInv'
<1>1. c \in Serving /\ Serving' = Serving \ {c} /\ mpc # "exited"
  BY DEF Uncount, ThreadGoto, Serving, Counted, Ranges, PlaceInv
<1>2. Cardinality(Serving') = Cardinality(Serving) - 1
  BY <1>1, ServingIsFinite, FS_RemoveElement
<1>3. Serving' \subseteq Clients
  BY DEF Serving
<1>4. Cardinality(Serving') \in 0..Cardinality(Clients)
  BY <1>3, AcceptAssumption, FS_Subset, FS_CardinalityType
<1> QED
  BY <1>1, <1>2, <1>4 DEF Uncount, Uncounted, CountInv

-----------------------------------------------------------------------------
\* A counter below its limit can take one more.
LEMMA OneMore == ASSUME NEW n \in Nat, NEW a \in 0..n, a < n PROVE a + 1 \in 0..n
OBVIOUS

LEMMA HostsStep ==
    ASSUME AcceptInv, NEW c \in Clients, Host(c)
    PROVE  AcceptInv'
<1> USE AcceptAssumption DEF AcceptInv
<1>1. CountInv'
  BY SameCount DEF Host, Want, OpenPipe, Leave, main, shared, Serving
<1>2. CASE Want(c)
  BY <1>1, <1>2 DEF Want, main, shared, Ranges, PlaceInv, NoHostLost, IdleInv,
                    IdleExitServesNobody, Forgotten, Looping
<1>3. CASE OpenPipe(c)
  BY <1>1, <1>3 DEF OpenPipe, main, shared, Ranges, PlaceInv, NoHostLost, IdleInv,
                    IdleExitServesNobody, Forgotten, Looping
<1>4. CASE Leave(c)
  BY <1>1, <1>4 DEF Leave, main, shared, Ranges, PlaceInv, NoHostLost, IdleInv,
                    IdleExitServesNobody, Forgotten, Looping
<1> QED
  BY <1>2, <1>3, <1>4 DEF Host

LEMMA ThreadsStep ==
    ASSUME AcceptInv, NEW c \in Clients,
           Thread(c) \/ ServeCommand(c) \/ ServeShutdown(c)
    PROVE  AcceptInv'
<1> USE AcceptAssumption DEF AcceptInv
<1>1. CountInv'
  <2>1. CASE HangUp(c) \/ ClosePipe(c) \/ StampActivity(c) \/ ServeCommand(c) \/ ServeShutdown(c)
    <3>1. active' = active /\ mpc' = mpc
      BY <2>1 DEF HangUp, ClosePipe, StampActivity, ServeCommand, ServeShutdown, main, shared
    <3>2. Serving' = Serving
      BY <2>1 DEF HangUp, ClosePipe, StampActivity, ServeCommand, ServeShutdown,
                  ThreadGoto, Serving, Counted, Ranges
    <3> QED
      BY <3>1, <3>2, SameCount
  <2> QED
    BY <2>1, StartCounts, UncountCounts DEF Thread
<1>2. Ranges'
  <2>1. 0 \in 0..IdleTicks + 1
    OBVIOUS
  <2> QED
    BY <2>1 DEF Thread, StartThread, HangUp, ClosePipe, StampActivity, Uncount, ServeCommand,
                ServeShutdown, ThreadGoto, main, shared, Ranges, Counted
<1>3. PlaceInv'
  BY DEF Thread, StartThread, HangUp, ClosePipe, StampActivity, Uncount, ServeCommand,
         ServeShutdown, ThreadGoto, main, shared, Ranges, PlaceInv, Forgotten
<1>4. NoHostLost'
  BY DEF Thread, StartThread, HangUp, ClosePipe, StampActivity, Uncount, ServeCommand,
         ServeShutdown, ThreadGoto, main, shared, Ranges, NoHostLost
<1>5. IdleInv'
  BY DEF Thread, StartThread, HangUp, ClosePipe, StampActivity, Uncount, ServeCommand,
         ServeShutdown, ThreadGoto, main, shared, Ranges, IdleInv, IdleExitServesNobody
<1> QED
  BY <1>1, <1>2, <1>3, <1>4, <1>5

LEMMA ComparisonIsBoolean == ASSUME NEW a \in Int, NEW b \in Int PROVE (a > b) \in BOOLEAN
OBVIOUS

LEMMA AgeTest == ASSUME Ranges PROVE (age > IdleTicks) \in BOOLEAN
<1>1. IdleTicks \in Nat
  BY AcceptAssumption
<1>2. age \in Int
  <2>1. age \in 0..IdleTicks + 1
    BY DEF Ranges
  <2> QED
    BY <1>1, <2>1
<1> QED
  BY <1>1, <1>2, ComparisonIsBoolean

LEMMA LoopStep ==
    ASSUME AcceptInv, Main
    PROVE  AcceptInv'
<1> USE AcceptAssumption DEF AcceptInv, main, shared
<1>1. CASE Connect \/ Connected \/ ShutdownSeen \/ Timeout
  <2>1. CountInv'
    BY <1>1, SameCount DEF Connect, Connected, ShutdownSeen, Timeout, Serving
  <2>2. Ranges'
    <3>1. mpc' \in Looping \cup {"leave loop"} /\ why' \in {"none", "idle", "shutdown"}
      BY <1>1 DEF Connect, Connected, ShutdownSeen, Timeout, Ranges, Looping
    <3>2. tooLong' \in BOOLEAN
      <4>1. (age > IdleTicks) \in BOOLEAN
        BY AgeTest
      <4>2. tooLong' = tooLong \/ tooLong' = (age > IdleTicks)
        BY <1>1, Zenon DEF Connect, Connected, ShutdownSeen, Timeout
      <4> QED
        BY <4>1, <4>2, Zenon DEF Ranges
    <3>3. UNCHANGED <<listening, served, shutdown, age, thread, host, failures>>
      BY <1>1 DEF Connect, Connected, ShutdownSeen, Timeout
    <3> QED
      BY <3>1, <3>2, <3>3 DEF Ranges
  <2>3. PlaceInv'
    BY <1>1 DEF Connect, AlreadyConnected, Connected, ShutdownSeen, Timeout, PlaceInv, Forgotten
  <2>4. NoHostLost' /\ IdleInv'
    BY <1>1 DEF Connect, Connected, ShutdownSeen, Timeout, NoHostLost, IdleInv,
                IdleExitServesNobody, Looping
  <2> QED
    BY <2>1, <2>2, <2>3, <2>4
<1>2. CASE Decide
  <2>1. CountInv'
    BY <1>2, SameCount DEF Decide, Serving
  <2>2. active = 0 => Serving = {}
    BY <1>2, ServingIsFinite, FS_EmptySet DEF Decide, CountInv
  <2>3. active = 0 => \A c \in Clients : thread[c] = "none"
    BY <1>2, <2>2 DEF Decide, Serving, Ranges, IdleInv
  <2> QED
    BY <1>2, <2>1, <2>3 DEF Decide, NobodyForLong, SameInstance, Ranges, PlaceInv, NoHostLost,
                            IdleInv, IdleExitServesNobody, Forgotten, Looping
<1>3. CASE NextInstance
  <2>1. CountInv'
    BY <1>3, SameCount DEF NextInstance, Serving
  <2>2. Ranges'
    <3>1. failures < MaxFailures => failures + 1 \in 0..MaxFailures
      BY OneMore DEF Ranges
    <3> QED
      BY <1>3, <3>1 DEF NextInstance, Kept, Ranges, PlaceInv, Looping
  <2>3. PlaceInv'
    BY <1>3 DEF NextInstance, Kept, Ranges, PlaceInv, Forgotten
  <2>4. NoHostLost' /\ IdleInv'
    BY <1>3 DEF NextInstance, Kept, Ranges, PlaceInv, NoHostLost, IdleInv,
                IdleExitServesNobody, Looping
  <2> QED
    BY <2>1, <2>2, <2>3, <2>4
<1>4. CASE HandOver
  <2>1. served \in Clients /\ thread[served] = "none"
    BY <1>4 DEF HandOver, Ranges, PlaceInv
  <2>2. Serving' = Serving
    BY <1>4, <2>1 DEF HandOver, Serving, Counted, Ranges
  <2>3. CountInv'
    BY <1>4, <2>2, SameCount DEF HandOver
  <2>4. Ranges'
    <3>1. failures < MaxFailures => failures + 1 \in 0..MaxFailures
      BY OneMore DEF Ranges
    <3> QED
      BY <1>4, <2>1, <3>1 DEF HandOver, Ranges, Looping
  <2>5. PlaceInv'
    BY <1>4, <2>1 DEF HandOver, Ranges, PlaceInv, Forgotten
  <2>6. NoHostLost' /\ IdleInv'
    BY <1>4, <2>1 DEF HandOver, Ranges, NoHostLost, IdleInv, IdleExitServesNobody, Looping
  <2> QED
    BY <2>3, <2>4, <2>5, <2>6
<1>5. CASE Exit
  <2>1. CountInv'
    BY <1>5, SameCount DEF Exit
  <2> QED
    BY <1>5, <2>1 DEF Exit, Ranges, PlaceInv, NoHostLost, IdleInv, IdleExitServesNobody,
                      Forgotten, Looping
<1> QED
  BY <1>1, <1>2, <1>3, <1>4, <1>5 DEF Main

LEMMA AcceptStep == AcceptInv /\ [Next]_vars => AcceptInv'
<1> SUFFICES ASSUME AcceptInv, [Next]_vars PROVE AcceptInv'
  OBVIOUS
<1>1. CASE Tick
  <2>1. CountInv'
    BY <1>1, SameCount DEF AcceptInv, Tick, main, Serving
  <2>2. age' \in 0..IdleTicks + 1
    <3>1. IdleTicks \in Nat /\ age \in 0..IdleTicks + 1 /\ age <= IdleTicks
      BY <1>1, AcceptAssumption DEF AcceptInv, Tick, Ranges
    <3>2. age' = age + 1
      BY <1>1 DEF Tick
    <3> QED
      BY <3>1, <3>2
  <2> QED
    BY <1>1, <2>1, <2>2 DEF AcceptInv, Tick, main, Ranges, PlaceInv, NoHostLost, IdleInv,
                            IdleExitServesNobody, Forgotten
<1>2. CASE UNCHANGED vars
  <2>1. CountInv'
    BY <1>2, SameCount DEF AcceptInv, vars, main, shared, Serving
  <2> QED
    BY <1>2, <2>1 DEF AcceptInv, vars, main, shared, Ranges, PlaceInv, NoHostLost, IdleInv,
                      IdleExitServesNobody, Forgotten
<1> QED
  BY <1>1, <1>2, HostsStep, ThreadsStep, LoopStep DEF Next

-----------------------------------------------------------------------------
\* Every variable keeps its range: g_active_clients never passes the number
\* of hosts and never falls below zero.
THEOREM AcceptTypeOK == Spec => []TypeOK
<1>1. AcceptInv => TypeOK
  BY DEF AcceptInv, Ranges, CountInv, TypeOK
<1> QED
  BY AcceptInit, AcceptStep, <1>1, PTL DEF Spec

\* A host that got the pipe open is at the listening instance, being handed
\* over or has its thread, whenever it opened it and whatever failed.
THEOREM NoHostIsLost == Spec => []NoHostLost
<1>1. AcceptInv => NoHostLost
  BY DEF AcceptInv
<1> QED
  BY AcceptInit, AcceptStep, <1>1, PTL DEF Spec

\* A worker that leaves for idleness has no client thread.
THEOREM IdleExitLeavesNobody == Spec => []IdleExitServesNobody
<1>1. AcceptInv => IdleExitServesNobody
  BY DEF AcceptInv, IdleInv
<1> QED
  BY AcceptInit, AcceptStep, <1>1, PTL DEF Spec

=============================================================================
