----------------------------- MODULE FadeTables -----------------------------
(***************************************************************************)
(* The cross-fade tables of dsp::time_scale.                               *)
(*                                                                         *)
(* The two vectors are static: one pair for the whole process, empty until *)
(* the first call that needs them fills them in.  The worker renders       *)
(* outside g_engine_lock, so several client threads may be in time_scale   *)
(* at once, and nothing orders one's filling against another's use.        *)
(*                                                                         *)
(* Steps interleave one vector operation at a time.  A data race may do    *)
(* worse than that; the model needs no more to show what goes wrong.       *)
(***************************************************************************)
EXTENDS Integers

CONSTANTS
    Threads,   \* client threads in time_scale
    Overlap    \* OVERLAP, 120 in the code; at least 1

VARIABLES
    pc,        \* what each thread is about to do
    i,         \* its loop counter
    fadeIn,    \* what is stored at each index: nothing, 0 or the weight
    fadeOut

vars == <<pc, i, fadeIn, fadeOut>>

Indices == 0..Overlap - 1
Empty == [n \in Indices |-> "nothing"]
Zeros == [n \in Indices |-> "0"]

Init ==
    /\ pc = [t \in Threads |-> "look"]
    /\ i = [t \in Threads |-> 0]
    /\ fadeIn = Empty
    /\ fadeOut = Empty

Goto(t, point, counter) ==
    /\ pc' = [pc EXCEPT ![t] = point]
    /\ i' = [i EXCEPT ![t] = counter]

\* if (fade_in.empty())
Look(t) ==
    /\ pc[t] = "look"
    /\ Goto(t, IF fadeIn = Empty THEN "resize in" ELSE "fade", 0)
    /\ UNCHANGED <<fadeIn, fadeOut>>

\* resize adds zeros to an empty vector and leaves a full one as it is.
ResizeIn(t) ==
    /\ pc[t] = "resize in"
    /\ fadeIn' = IF fadeIn = Empty THEN Zeros ELSE fadeIn
    /\ Goto(t, "resize out", 0)
    /\ UNCHANGED fadeOut

ResizeOut(t) ==
    /\ pc[t] = "resize out"
    /\ fadeOut' = IF fadeOut = Empty THEN Zeros ELSE fadeOut
    /\ Goto(t, "fill", 0)
    /\ UNCHANGED fadeIn

Fill(t) ==
    /\ pc[t] = "fill"
    /\ fadeIn' = [fadeIn EXCEPT ![i[t]] = "w"]
    /\ fadeOut' = [fadeOut EXCEPT ![i[t]] = "1 - w"]
    /\ IF i[t] + 1 < Overlap THEN Goto(t, "fill", i[t] + 1) ELSE Goto(t, "fade", 0)

\* One sample of an overlap; after the last one, the next frame or the end of
\* the utterance, and another call.
Fade(t) ==
    /\ pc[t] = "fade"
    /\ \/ i[t] + 1 < Overlap /\ Goto(t, "fade", i[t] + 1)
       \/ i[t] + 1 = Overlap /\ (Goto(t, "fade", 0) \/ Goto(t, "look", 0))
    /\ UNCHANGED <<fadeIn, fadeOut>>

Next == \E t \in Threads : Look(t) \/ ResizeIn(t) \/ ResizeOut(t) \/ Fill(t) \/ Fade(t)

Spec == Init /\ [][Next]_vars

\* "The two halves always sum to one, so a stationary vowel comes through the
\* overlap at its original amplitude" (time_scale): the weights a thread is
\* about to use at an index are there and belong together.
HalvesSumToOne ==
    \A t \in Threads :
        pc[t] = "fade" => fadeIn[i[t]] = "w" /\ fadeOut[i[t]] = "1 - w"

=============================================================================
