------------------------ MODULE EngineSharing_proofs ------------------------
(***************************************************************************)
(* What holds of EngineSharing for any number of clients, any number of    *)
(* slots and any pause lengths, segment limit and channel count.           *)
(*                                                                         *)
(* OwnPacing is not inductive: a step of one thread keeps it only because  *)
(* no other thread is between its first set_pause and its last segment.    *)
(* SharingInv adds what the argument needs: who holds the lock, how far    *)
(* the slots have been written, what the segments made so far were made    *)
(* with, and whose channel is open. A measure of the steps left shows that *)
(* whoever holds the engine comes to the end of its call.                  *)
(***************************************************************************)
EXTENDS EngineSharing, TLAPS

\* Exactly the threads at a control point inside the critical section own it.
LockHeldInside == \A c \in Clients : pc[c] \in Inside <=> lock = c

\* The segment counter starts at zero and stays below the limit while the
\* loop runs.
SegmentsBelowLimit ==
    \A c \in Clients :
        /\ pc[c] \notin Synthesizing => segments[c] = 0
        /\ pc[c] = "synth" => segments[c] <= MaxSegments

\* The table holds what the thread asked for in the slots it has passed, and
\* in all of them once the loop over the slots is over.
SlotWritten(c, s) == ask[c][s] # Keep => pausation[s] = ask[c][s]

SlotsWritten ==
    \A c \in Clients :
        /\ pc[c] = "pause" => \A s \in Slots : s < slot[c] => SlotWritten(c, s)
        /\ pc[c] \in {"init"} \cup Synthesizing => \A s \in Slots : SlotWritten(c, s)

\* No segment was made before the loop over the slots was over, and while the
\* utterance is being made its segments were made with the table as it is.
HeardCurrent ==
    \A c \in Clients :
        /\ pc[c] \in {"enter", "pause", "init"} => heard[c] = {}
        /\ pc[c] \in Synthesizing => heard[c] \subseteq {pausation}

\* Exactly the threads between initialize_SSB and close_SSB hold a channel.
HoldingSynthesizing ==
    \A c \in Clients : c \in holding <=> pc[c] \in Synthesizing

SharingInv ==
    /\ TypeOK
    /\ LockHeldInside
    /\ SegmentsBelowLimit
    /\ SlotsWritten
    /\ HeardCurrent
    /\ HoldingSynthesizing
    /\ OwnPacing
    /\ OnePacing

USE SharingAssumption DEF Synthesizing, Inside, ProgramPoints, Slots, Keep

-----------------------------------------------------------------------------
\* The worker starts with nobody inside, nothing heard and no channel open.
LEMMA SharingInit == Init => SharingInv
<1> SUFFICES ASSUME Init PROVE SharingInv
  OBVIOUS
<1>1. TypeOK
  BY DEF Init, TypeOK, Asks, Tables
<1>2. LockHeldInside /\ SegmentsBelowLimit /\ SlotsWritten
  BY DEF Init, LockHeldInside, SegmentsBelowLimit, SlotsWritten
<1>3. HeardCurrent /\ HoldingSynthesizing /\ OwnPacing /\ OnePacing
  BY DEF Init, HeardCurrent, HoldingSynthesizing, OwnPacing, OnePacing
<1> QED
  BY <1>1, <1>2, <1>3 DEF SharingInv

\* The lock is what keeps the threads apart: two of them are never inside.
LEMMA OneInside ==
    ASSUME LockHeldInside, NEW c \in Clients, NEW d \in Clients,
           pc[c] \in Inside, pc[d] \in Inside
    PROVE  c = d
  BY DEF LockHeldInside

\* What a command asks of a slot is one of the lengths, which set_pause gets,
\* or to keep what is there.
LEMMA AskedLength ==
    ASSUME TypeOK, NEW c \in Clients, NEW s \in Slots
    PROVE  /\ ask[c][s] \in PauseLengths \cup {Keep}
           /\ ask[c][s] # Keep => ask[c][s] >= 0
<1>1. ask[c] \in Asks
  BY DEF TypeOK
<1>2. ask[c][s] \in PauseLengths \cup {Keep}
  BY <1>1 DEF Asks
<1>3. \A n \in PauseLengths : n \in Nat /\ n >= 0
  OBVIOUS
<1> QED
  BY <1>2, <1>3

\* Every step of a thread, and of another process, keeps the invariant.
LEMMA SharingStep == SharingInv /\ [Next]_vars => SharingInv'
<1> SUFFICES ASSUME SharingInv, [Next]_vars PROVE SharingInv'
  OBVIOUS
<1> USE DEF SharingInv
<1>1. ASSUME NEW c \in Clients, ReceiveSpeak(c) PROVE SharingInv'
  <2> USE <1>1 DEF ReceiveSpeak, Goto
  <2>1. TypeOK'
    BY DEF TypeOK
  <2>2. LockHeldInside' /\ SegmentsBelowLimit' /\ HoldingSynthesizing'
    BY DEF TypeOK, LockHeldInside, SegmentsBelowLimit, HoldingSynthesizing
  <2>3. SlotsWritten' /\ HeardCurrent'
    BY DEF TypeOK, SlotsWritten, SlotWritten, HeardCurrent
  <2>4. OwnPacing' /\ OnePacing'
    BY DEF TypeOK, OwnPacing, OnePacing
  <2> QED
    BY <2>1, <2>2, <2>3, <2>4
<1>2. ASSUME NEW c \in Clients, EnterLock(c) PROVE SharingInv'
  <2> USE <1>2 DEF EnterLock, LockAvailable, Goto
  <2>1. TypeOK'
    BY DEF TypeOK
  <2>2. LockHeldInside' /\ SegmentsBelowLimit' /\ HoldingSynthesizing'
    BY DEF TypeOK, LockHeldInside, SegmentsBelowLimit, HoldingSynthesizing
  <2>3. SlotsWritten' /\ HeardCurrent'
    BY DEF TypeOK, SlotsWritten, SlotWritten, HeardCurrent
  <2>4. OwnPacing' /\ OnePacing'
    BY DEF OwnPacing, OnePacing
  <2> QED
    BY <2>1, <2>2, <2>3, <2>4
<1>3. ASSUME NEW c \in Clients, SetPause(c) PROVE SharingInv'
  <2> USE <1>3 DEF SetPause, AllSlotsSet, Goto
  <2>1. TypeOK'
    <3>1. CASE AllSlotsSet(c)
      BY <3>1 DEF TypeOK
    <3>2. CASE ~AllSlotsSet(c)
      <4>1. slot[c] \in Slots /\ slot' \in [Clients -> 1..PauseCount + 1]
        BY <3>2 DEF TypeOK
      <4>2. ask[c][slot[c]] \in PauseLengths \cup {Keep}
        BY <4>1, AskedLength
      <4>3. pausation \in Tables
        BY DEF TypeOK
      <4>4. pausation' \in Tables
        BY <3>2, <4>1, <4>2, <4>3 DEF Tables
      <4> QED
        BY <3>2, <4>1, <4>4 DEF TypeOK
    <3> QED
      BY <3>1, <3>2
  <2>2. LockHeldInside' /\ SegmentsBelowLimit' /\ HoldingSynthesizing'
    BY DEF TypeOK, LockHeldInside, SegmentsBelowLimit, HoldingSynthesizing
  <2>3. \A d \in Clients \ {c} : pc[d] \notin Inside
    BY OneInside
  <2>4. SlotsWritten'
    <3>1. CASE AllSlotsSet(c)
      BY <2>3, <3>1 DEF TypeOK, SlotsWritten, SlotWritten
    <3>2. CASE ~AllSlotsSet(c)
      <4> PICK k \in Slots : k = slot[c]
        BY <3>2 DEF TypeOK
      <4>1. /\ pc' = pc /\ ask' = ask
            /\ slot'[c] = slot[c] + 1
            /\ slot[c] \in Slots
        BY <3>2 DEF TypeOK
      <4>2. pausation \in [Slots -> PauseLengths]
        BY DEF TypeOK, Tables
      <4>3. \A s \in Slots \ {k} : pausation'[s] = pausation[s]
        BY <3>2, <4>2
      <4>4. ask[c][k] # Keep => pausation'[k] = ask[c][k]
        BY <3>2, <4>2, AskedLength
      <4>5. ASSUME NEW s \in Slots, s < slot'[c] PROVE SlotWritten(c, s)'
        <5>1. CASE s = k
          BY <4>1, <4>4, <5>1 DEF SlotWritten
        <5>2. CASE s # k
          <6>1. s < slot[c]
            BY <4>1, <4>5, <5>2
          <6>2. SlotWritten(c, s)
            BY <6>1 DEF SlotsWritten
          <6> QED
            BY <4>1, <4>3, <5>2, <6>2 DEF SlotWritten
        <5> QED
          BY <5>1, <5>2
      <4> QED
        BY <2>3, <4>1, <4>5 DEF SlotsWritten
    <3> QED
      BY <3>1, <3>2
  <2>5. HeardCurrent'
    BY <2>3 DEF TypeOK, HeardCurrent
  <2>6. OwnPacing' /\ OnePacing'
    BY DEF OwnPacing, OnePacing
  <2> QED
    BY <2>1, <2>2, <2>4, <2>5, <2>6
<1>4. ASSUME NEW c \in Clients, InitializeSSB(c) PROVE SharingInv'
  <2> USE <1>4 DEF InitializeSSB, AfterRefusal, Goto
  <2>1. TypeOK'
    BY DEF TypeOK
  <2>2. LockHeldInside' /\ HoldingSynthesizing'
    BY DEF TypeOK, LockHeldInside, HoldingSynthesizing
  <2>3. SegmentsBelowLimit'
    BY DEF TypeOK, SegmentsBelowLimit
  <2>4. SlotsWritten' /\ HeardCurrent'
    BY DEF TypeOK, SlotsWritten, SlotWritten, HeardCurrent
  <2>5. OwnPacing' /\ OnePacing'
    BY DEF OwnPacing, OnePacing
  <2> QED
    BY <2>1, <2>2, <2>3, <2>4, <2>5
<1>5. ASSUME NEW c \in Clients, MakeSegment(c) PROVE SharingInv'
  <2> USE <1>5 DEF MakeSegment, PastLimit, Goto
  <2>1. TypeOK'
    BY DEF TypeOK, SegmentsBelowLimit
  <2>2. LockHeldInside' /\ SegmentsBelowLimit' /\ HoldingSynthesizing'
    BY DEF TypeOK, LockHeldInside, SegmentsBelowLimit, HoldingSynthesizing
  <2>3. SlotsWritten'
    BY DEF TypeOK, SlotsWritten, SlotWritten
  <2>4. HeardCurrent'
    BY DEF TypeOK, HeardCurrent
  <2>5. heard'[c] \subseteq {pausation} /\ \A s \in Slots : SlotWritten(c, s)
    BY DEF TypeOK, HeardCurrent, SlotsWritten
  <2>6. \A d \in Clients \ {c} : heard'[d] = heard[d]
    BY DEF TypeOK
  <2>7. OwnPacing' /\ OnePacing'
    BY <2>5, <2>6 DEF OwnPacing, OnePacing, SlotWritten
  <2> QED
    BY <2>1, <2>2, <2>3, <2>4, <2>7
<1>6. ASSUME NEW c \in Clients, LastSegment(c) \/ CloseSSB(c) PROVE SharingInv'
  <2> USE <1>6 DEF LastSegment, CloseSSB, AfterLoop, Goto
  <2>1. TypeOK'
    BY DEF TypeOK
  <2>2. LockHeldInside' /\ SegmentsBelowLimit' /\ HoldingSynthesizing'
    BY DEF TypeOK, LockHeldInside, SegmentsBelowLimit, HoldingSynthesizing
  <2>3. SlotsWritten' /\ HeardCurrent'
    BY DEF TypeOK, SlotsWritten, SlotWritten, HeardCurrent
  <2>4. OwnPacing' /\ OnePacing'
    BY DEF OwnPacing, OnePacing
  <2> QED
    BY <2>1, <2>2, <2>3, <2>4
<1>7. ASSUME NEW c \in Clients, LeaveLock(c) PROVE SharingInv'
  <2> USE <1>7 DEF LeaveLock, Goto
  <2>1. TypeOK'
    BY DEF TypeOK
  <2>2. LockHeldInside'
    BY OneInside DEF TypeOK, LockHeldInside
  <2>3. SegmentsBelowLimit' /\ HoldingSynthesizing'
    BY DEF TypeOK, SegmentsBelowLimit, HoldingSynthesizing
  <2>4. SlotsWritten' /\ HeardCurrent'
    BY DEF TypeOK, SlotsWritten, SlotWritten, HeardCurrent
  <2>5. OwnPacing' /\ OnePacing'
    BY DEF OwnPacing, OnePacing
  <2> QED
    BY <2>1, <2>2, <2>3, <2>4, <2>5
<1>8. ASSUME NEW c \in Clients, RenderAndReply(c) PROVE SharingInv'
  <2> USE <1>8 DEF RenderAndReply, Goto
  <2>1. TypeOK'
    BY DEF TypeOK
  <2>2. LockHeldInside' /\ SegmentsBelowLimit' /\ HoldingSynthesizing'
    BY DEF TypeOK, LockHeldInside, SegmentsBelowLimit, HoldingSynthesizing
  <2>3. SlotsWritten' /\ HeardCurrent'
    BY DEF TypeOK, SlotsWritten, SlotWritten, HeardCurrent
  <2>4. OwnPacing' /\ OnePacing'
    BY DEF OwnPacing, OnePacing
  <2> QED
    BY <2>1, <2>2, <2>3, <2>4
<1>9. CASE OtherProcess
  <2> USE <1>9 DEF OtherProcess
  <2>1. TypeOK'
    BY DEF TypeOK
  <2>2. LockHeldInside' /\ SegmentsBelowLimit' /\ HoldingSynthesizing'
    BY DEF LockHeldInside, SegmentsBelowLimit, HoldingSynthesizing
  <2>3. SlotsWritten' /\ HeardCurrent' /\ OwnPacing' /\ OnePacing'
    BY DEF SlotsWritten, SlotWritten, HeardCurrent, OwnPacing, OnePacing
  <2> QED
    BY <2>1, <2>2, <2>3
<1>10. CASE UNCHANGED vars
  BY <1>10 DEF vars, TypeOK, LockHeldInside, SegmentsBelowLimit, SlotsWritten,
     SlotWritten, HeardCurrent, HoldingSynthesizing, OwnPacing, OnePacing
<1> QED
  BY <1>1, <1>2, <1>3, <1>4, <1>5, <1>6, <1>7, <1>8, <1>9, <1>10 DEF Next, Serve

-----------------------------------------------------------------------------
\* The strengthening is an invariant of the worker.
THEOREM SharingInvariant == Spec => []SharingInv
  BY SharingInit, SharingStep, PTL DEF Spec

\* Every variable keeps its type.
THEOREM TypeCorrect == Spec => []TypeOK
<1>1. SharingInv => TypeOK
  BY DEF SharingInv
<1> QED
  BY <1>1, SharingInvariant, PTL

\* However many clients share the worker, no utterance is made with a pause
\* length another client asked for.
THEOREM OwnPacingCorrect == Spec => []OwnPacing
<1>1. SharingInv => OwnPacing
  BY DEF SharingInv
<1> QED
  BY <1>1, SharingInvariant, PTL

\* The pause table does not change under an utterance.
THEOREM OnePacingCorrect == Spec => []OnePacing
<1>1. SharingInv => OnePacing
  BY DEF SharingInv
<1> QED
  BY <1>1, SharingInvariant, PTL

\* The worker holds at most one of the machine's channels, and none while the
\* engine lock is free.
THEOREM ChannelReturned == Spec => []ChannelOnlyInsideLock
<1>1. SharingInv => ChannelOnlyInsideLock
  BY DEF SharingInv, TypeOK, HoldingSynthesizing, LockHeldInside, ChannelOnlyInsideLock
<1> QED
  BY <1>1, SharingInvariant, PTL

-----------------------------------------------------------------------------
(* The lock comes back: its owner waits for nobody, and each of its steps  *)
(* brings it nearer to LeaveCriticalSection.                               *)

\* The steps that thread c has at most before it, while it owns the lock.
StepsLeft(c) ==
    CASE pc[c] = "pause" -> PauseCount - slot[c] + MaxSegments + 6
      [] pc[c] = "init" -> MaxSegments + 4
      [] pc[c] = "synth" -> MaxSegments - segments[c] + 3
      [] pc[c] = "close" -> 2
      [] pc[c] = "leave" -> 1
      [] OTHER -> 0

\* The step of another thread, or of another process, leaves them alone.
LEMMA OthersDoNotDelay ==
    ASSUME TypeOK, NEW c \in Clients, NEW d \in Clients, d # c, ReceiveSpeak(d) \/ Serve(d)
    PROVE  StepsLeft(c)' = StepsLeft(c)
<1>1. pc'[c] = pc[c] /\ slot'[c] = slot[c] /\ segments'[c] = segments[c]
  BY DEF TypeOK, ReceiveSpeak, Serve, EnterLock, SetPause, InitializeSSB, MakeSegment,
         LastSegment, CloseSSB, LeaveLock, RenderAndReply, Goto
<1> QED
  BY <1>1 DEF StepsLeft

\* A step of the owner takes at least one of them away.
LEMMA OwnerStep ==
    ASSUME SharingInv, NEW c \in Clients, lock = c, Serve(c)
    PROVE  StepsLeft(c)' < StepsLeft(c)
<1> USE DEF SharingInv, TypeOK, Goto, StepsLeft
<1>1. pc[c] \in Inside
  BY DEF LockHeldInside
<1>2. CASE SetPause(c)
  BY <1>2 DEF SetPause, AllSlotsSet
<1>3. CASE InitializeSSB(c)
  <2>1. segments[c] = 0
    BY <1>3 DEF InitializeSSB, SegmentsBelowLimit
  <2> QED
    BY <1>3, <2>1 DEF InitializeSSB, AfterRefusal
<1>4. CASE MakeSegment(c)
  <2>1. segments'[c] = segments[c] + 1
    BY <1>4 DEF MakeSegment
  <2>2. segments[c] \in Nat /\ segments[c] <= MaxSegments
    BY <1>4 DEF MakeSegment, SegmentsBelowLimit
  <2> QED
    BY <1>4, <2>1, <2>2 DEF MakeSegment, PastLimit
<1>5. CASE LastSegment(c)
  <2>1. segments[c] \in Nat /\ segments[c] <= MaxSegments
    BY <1>5 DEF LastSegment, SegmentsBelowLimit
  <2> QED
    BY <1>5, <2>1 DEF LastSegment, AfterLoop
<1>6. CASE CloseSSB(c) \/ LeaveLock(c)
  BY <1>6 DEF CloseSSB, LeaveLock
<1> QED
  BY <1>1, <1>2, <1>3, <1>4, <1>5, <1>6 DEF Serve, EnterLock, RenderAndReply

\* However the engine behaves, the owner of g_engine_lock is never more than
\* PauseCount + MaxSegments + 5 of its own steps away from leaving it.
THEOREM OwnerIsNearlyDone ==
    Spec => [](\A c \in Clients :
                  lock = c => StepsLeft(c) \in 1..PauseCount + MaxSegments + 5)
<1>1. SharingInv => \A c \in Clients :
          lock = c => StepsLeft(c) \in 1..PauseCount + MaxSegments + 5
  <2> SUFFICES ASSUME SharingInv, NEW c \in Clients, lock = c
               PROVE  StepsLeft(c) \in 1..PauseCount + MaxSegments + 5
    OBVIOUS
  <2>1. pc[c] \in Inside
    BY DEF SharingInv, LockHeldInside
  <2>2. pc[c] = "synth" => segments[c] \in 0..MaxSegments
    BY DEF SharingInv, TypeOK, SegmentsBelowLimit
  <2>3. slot[c] \in 1..PauseCount + 1
    BY DEF SharingInv, TypeOK
  <2> QED
    BY <2>1, <2>2, <2>3 DEF StepsLeft
<1> QED
  BY <1>1, SharingInvariant, PTL

\* Each step of the owner brings it nearer to that and no other step takes it
\* away from it: nothing another client does, and no text, makes the lock be
\* held for longer.
THEOREM OwnerGetsOn ==
    Spec => [][\A c \in Clients : lock = c =>
                  IF Serve(c) THEN StepsLeft(c)' < StepsLeft(c)
                  ELSE UNCHANGED StepsLeft(c)]_vars
<1> DEFINE GetsOn == \A c \in Clients : lock = c =>
                        IF Serve(c) THEN StepsLeft(c)' < StepsLeft(c)
                        ELSE UNCHANGED StepsLeft(c)
<1>1. SharingInv /\ Next => GetsOn
  <2> SUFFICES ASSUME SharingInv, Next, NEW c \in Clients, lock = c
               PROVE  IF Serve(c) THEN StepsLeft(c)' < StepsLeft(c)
                      ELSE UNCHANGED StepsLeft(c)
    OBVIOUS
  <2>1. CASE Serve(c)
    BY <2>1, OwnerStep
  <2>2. CASE ~Serve(c)
    <3>1. ~ReceiveSpeak(c)
      BY DEF SharingInv, LockHeldInside, ReceiveSpeak
    <3>2. CASE OtherProcess
      BY <2>2, <3>2 DEF OtherProcess, StepsLeft
    <3>3. CASE \E d \in Clients : ReceiveSpeak(d) \/ Serve(d)
      <4>1. PICK d \in Clients : ReceiveSpeak(d) \/ Serve(d)
        BY <3>3
      <4>2. d # c /\ TypeOK
        BY <2>2, <3>1, <4>1 DEF SharingInv
      <4> QED
        BY <2>2, <4>1, <4>2, OthersDoNotDelay
    <3> QED
      BY <3>2, <3>3 DEF Next
  <2> QED
    BY <2>1, <2>2
<1> QED
  BY <1>1, SharingInvariant, PTL DEF Spec

=============================================================================
