--------------------------- MODULE EngineSharing ---------------------------
(***************************************************************************)
(* The part of the 32-bit worker in which its clients share one engine.    *)
(*                                                                         *)
(* Every client of the worker has a thread (client_thread in               *)
(* av_server.cpp).  A thread that receives CMD_SPEAK takes g_engine_lock,  *)
(* writes the pause lengths that travelled with the utterance into the     *)
(* engine one slot at a time, synthesizes the whole utterance, releases    *)
(* the lock and then renders and streams the audio outside it.  The pause  *)
(* lengths ("pausation") are one process-wide table inside avcore.dll, and *)
(* avcore reads it while it makes each segment.  Its channels are counted  *)
(* machine-wide: initialize_SSB takes one and close_SSB gives it back, and *)
(* 32-bit hosts that hold the engine in process take from the same count.  *)
(*                                                                         *)
(* Abstracted: the text, the audio and the prosody numbers, what the       *)
(* engine would refuse in the text (a free choice), and how the reply is   *)
(* streamed, which PipeSession models.                                     *)
(***************************************************************************)
EXTENDS Integers, FiniteSets

CONSTANTS
    Clients,          \* the client threads of the worker
    NoClient,         \* the owner of a free lock
    PauseCount,       \* AcuVoice::PAUSE_COUNT, 4 in the code
    PauseLengths,     \* pause lengths, in milliseconds, a client may ask for
    MaxSegments,      \* MAX_SEGMENTS, 100000 in the code
    ChannelsAllowed   \* get_channels_allowed(): channels on the machine

ASSUME SharingAssumption ==
    /\ NoClient \notin Clients
    /\ PauseCount \in Nat \ {0}
    /\ PauseLengths \subseteq Nat
    /\ PauseLengths # {}
    /\ MaxSegments \in Nat \ {0}
    /\ ChannelsAllowed \in Nat \ {0}

VARIABLES
    pc,         \* what each thread is about to do
    ask,        \* SpeakCommand::pause of the command it is serving
    slot,       \* the next slot its set_pause loop looks at
    lock,       \* who is inside g_engine_lock
    pausation,  \* avcore's process-wide pause lengths
    segments,   \* segments made of its utterance so far
    heard,      \* the pausation tables those segments were made with
    holding,    \* threads whose SSB is open: each has one channel
    others      \* channels taken by the other processes of the machine

vars == <<pc, ask, slot, lock, pausation, segments, heard, holding, others>>

Keep == -1
Slots == 1..PauseCount
Asks == [Slots -> PauseLengths \cup {Keep}]
Tables == [Slots -> PauseLengths]

\* The control points of handle_speak.  A thread is inside the critical
\* section at the ones of Inside and between initialize_SSB and close_SSB at
\* the ones of Synthesizing.
Synthesizing == {"synth", "close"}
Inside == {"pause", "init", "leave"} \cup Synthesizing
ProgramPoints == {"idle", "enter", "render"} \cup Inside

Goto(c, point) == pc' = [pc EXCEPT ![c] = point]

ChannelsInUse == others + Cardinality(holding)

-----------------------------------------------------------------------------
Init ==
    /\ pc = [c \in Clients |-> "idle"]
    /\ ask = [c \in Clients |-> [s \in Slots |-> Keep]]
    /\ slot = [c \in Clients |-> 1]
    /\ lock = NoClient
    /\ pausation \in Tables              \* PAUSE1..PAUSE4 of acuvoice.ini
    /\ segments = [c \in Clients |-> 0]
    /\ heard = [c \in Clients |-> {}]
    /\ holding = {}
    /\ others = 0

\* client_thread has read a whole CMD_SPEAK and calls handle_speak.
ReceiveSpeak(c) ==
    /\ pc[c] = "idle"
    /\ \E a \in Asks : ask' = [ask EXCEPT ![c] = a]
    /\ heard' = [heard EXCEPT ![c] = {}]
    /\ Goto(c, "enter")
    /\ UNCHANGED <<slot, lock, pausation, segments, holding, others>>

\* EnterCriticalSection(&g_engine_lock).  A mutant has no lock to wait for.
LockIgnored == TRUE
LockAvailable == lock = NoClient

EnterLock(c) ==
    /\ pc[c] = "enter"
    /\ LockAvailable
    /\ lock' = c
    /\ slot' = [slot EXCEPT ![c] = 1]
    /\ Goto(c, "pause")
    /\ UNCHANGED <<ask, pausation, segments, heard, holding, others>>

\* One turn of the loop over the slots, or its end.  Only a slot the client
\* gave a length for is written: -1 leaves it at whatever it already is.  A
\* mutant never writes the last slot.
AtLastSlot(c) == slot[c] >= PauseCount
AllSlotsSet(c) == slot[c] > PauseCount

SetPause(c) ==
    /\ pc[c] = "pause"
    /\ IF AllSlotsSet(c)
       THEN /\ Goto(c, "init")
            /\ UNCHANGED <<slot, pausation>>
       ELSE /\ slot' = [slot EXCEPT ![c] = @ + 1]
            /\ pausation' = IF ask[c][slot[c]] >= 0
                            THEN [pausation EXCEPT ![slot[c]] = ask[c][slot[c]]]
                            ELSE pausation
            /\ UNCHANGED pc
    /\ UNCHANGED <<ask, lock, segments, heard, holding, others>>

\* initialize_SSB: it takes a channel, or refuses.  It refuses text in which
\* there is nothing to speak (2870) and it refuses when every channel of the
\* machine is taken (3010); engine::speak returns without close_SSB then, and
\* handle_speak still leaves the lock.  A mutant returns without leaving it.
ReturnLocked == "render"
AfterRefusal == "leave"

InitializeSSB(c) ==
    /\ pc[c] = "init"
    /\ \/ /\ ChannelsInUse < ChannelsAllowed
          /\ holding' = holding \cup {c}
          /\ Goto(c, "synth")
       \/ /\ Goto(c, AfterRefusal)
          /\ UNCHANGED holding
    /\ UNCHANGED <<ask, slot, lock, pausation, segments, heard, others>>

\* synth_to_buffer made one more segment, with the pauses in force now.
\* engine::speak gives up past MAX_SEGMENTS, whatever isSeg_Available says.
PastLimit(count) == count > MaxSegments

MakeSegment(c) ==
    /\ pc[c] = "synth"
    /\ heard' = [heard EXCEPT ![c] = @ \cup {pausation}]
    /\ segments' = [segments EXCEPT ![c] = @ + 1]
    /\ Goto(c, IF PastLimit(segments'[c]) THEN "close" ELSE "synth")
    /\ UNCHANGED <<ask, slot, lock, pausation, holding, others>>

\* No segment is left, or the engine failed at one, or it reported more bytes
\* than the buffer holds: the loop ends.  A mutant returns without close_SSB.
ReturnOpen == "leave"
AfterLoop == "close"

LastSegment(c) ==
    /\ pc[c] = "synth"
    /\ Goto(c, AfterLoop)
    /\ UNCHANGED <<ask, slot, lock, pausation, segments, heard, holding, others>>

\* close_SSB, on every way out of the segment loop; engine::speak returns and
\* its counter goes with it.
CloseSSB(c) ==
    /\ pc[c] = "close"
    /\ holding' = holding \ {c}
    /\ segments' = [segments EXCEPT ![c] = 0]
    /\ Goto(c, "leave")
    /\ UNCHANGED <<ask, slot, lock, pausation, heard, others>>

\* LeaveCriticalSection(&g_engine_lock)
LeaveLock(c) ==
    /\ pc[c] = "leave"
    /\ lock' = NoClient
    /\ Goto(c, "render")
    /\ UNCHANGED <<ask, slot, pausation, segments, heard, holding, others>>

\* The samples are converted, rendered and streamed without the lock, and the
\* thread goes back to reading commands.
RenderAndReply(c) ==
    /\ pc[c] = "render"
    /\ Goto(c, "idle")
    /\ UNCHANGED <<ask, slot, lock, pausation, segments, heard, holding, others>>

\* A host that holds the engine in process takes or returns a channel.
OtherProcess ==
    /\ \/ /\ ChannelsInUse < ChannelsAllowed
          /\ others' = others + 1
       \/ /\ others > 0
          /\ others' = others - 1
    /\ UNCHANGED <<pc, ask, slot, lock, pausation, segments, heard, holding>>

-----------------------------------------------------------------------------
\* The steps by which a thread gets on with an utterance it has received.
Serve(c) ==
    \/ EnterLock(c)
    \/ SetPause(c)
    \/ InitializeSSB(c)
    \/ MakeSegment(c)
    \/ LastSegment(c)
    \/ CloseSSB(c)
    \/ LeaveLock(c)
    \/ RenderAndReply(c)

Next ==
    \/ \E c \in Clients : ReceiveSpeak(c) \/ Serve(c)
    \/ OtherProcess

Spec == Init /\ [][Next]_vars

\* Windows runs every runnable thread; nothing makes a client speak, and
\* g_engine_lock promises a waiting thread nothing while others come back.
FairSpec == Spec /\ \A c \in Clients : WF_vars(Serve(c))

-----------------------------------------------------------------------------
TypeOK ==
    /\ pc \in [Clients -> ProgramPoints]
    /\ ask \in [Clients -> Asks]
    /\ slot \in [Clients -> 1..PauseCount + 1]
    /\ lock \in Clients \cup {NoClient}
    /\ pausation \in Tables
    /\ segments \in [Clients -> 0..MaxSegments + 1]
    /\ heard \in [Clients -> SUBSET Tables]
    /\ holding \in SUBSET Clients
    /\ others \in Nat

\* "The pause lengths ... travel with the utterance so that two clients
\* wanting different pacing cannot end up speaking with each other's"
\* (pipe_protocol.h): every segment of an utterance was made with the length
\* its own command gave for each slot, and with no other client's.
OwnPacing ==
    \A c \in Clients : \A table \in heard[c] : \A s \in Slots :
        ask[c][s] # Keep => table[s] = ask[c][s]

\* Nobody changes the pauses under an utterance: all its segments were made
\* with the same table, the slots its client left alone (-1) included.
OnePacing ==
    \A c \in Clients : \A table1, table2 \in heard[c] : table1 = table2

\* The worker takes its channels from a machine-wide count one at a time and
\* gives each back before another thread gets the engine: an utterance that
\* fails midway must not keep its channel, or 32-bit hosts run out of them.
ChannelOnlyInsideLock == holding \subseteq {lock}

\* Whatever the engine does with an utterance, the thread lets go of
\* g_engine_lock in the end: no text silences the other clients for good.
LockReturned ==
    \A c \in Clients : lock = c ~> lock # c

=============================================================================
