--------------------------- MODULE SpeechService ---------------------------
(***************************************************************************)
(* What PipeClient::speak promises to the voice that calls it, with no     *)
(* pipe and no worker in sight.                                            *)
(*                                                                         *)
(* A call hands the chunks of its own utterance to the callback, in order  *)
(* and none twice.  When the callback refuses one, it gets no more.  The   *)
(* call returns true only when the callback got everything that was made   *)
(* of the text or had refused; it may return false at any time.            *)
(*                                                                         *)
(* A call that runs out of memory throws.  When that happens in the middle *)
(* of an answer the start of the next one is lost, and so is the promise:  *)
(* calls may hear noise, and return true on it, until one returns false    *)
(* and gives up the connection.                                            *)
(***************************************************************************)
EXTENDS Integers, Sequences

CONSTANTS
    MaxCalls,    \* bound: calls of one behaviour
    MaxChunks    \* bound: chunks of one utterance

VARIABLES
    phase,     \* "idle" or "running"
    call,      \* the number of the current or last call
    made,      \* chunks made of its text, NotMade until the text is spoken
    heard,     \* chunks the callback got, in order
    stopped,   \* the callback refused one
    result,    \* "none" while the call runs, then "true", "false" or "thrown"
    lost       \* the connection is one that a call has thrown on

vars == <<phase, call, made, heard, stopped, result, lost>>

NotMade == -1
Chunk(c, n) == [call |-> c, number |-> n]
Noise == Chunk(0, 0)

Init ==
    /\ phase = "idle"
    /\ call = 0
    /\ made = NotMade
    /\ heard = <<>>
    /\ stopped = FALSE
    /\ result = "none"
    /\ lost = FALSE

Call ==
    /\ phase = "idle"
    /\ call < MaxCalls
    /\ phase' = "running"
    /\ call' = call + 1
    /\ made' = NotMade
    /\ heard' = <<>>
    /\ stopped' = FALSE
    /\ result' = "none"
    /\ UNCHANGED lost

\* The text is synthesized, once, into some number of chunks, perhaps none.
Make ==
    /\ phase = "running"
    /\ made = NotMade
    /\ made' \in 0..MaxChunks
    /\ UNCHANGED <<phase, call, heard, stopped, result, lost>>

\* The callback gets the next chunk of this call and takes or refuses it.
Deliver ==
    /\ phase = "running"
    /\ ~stopped
    /\ Len(heard) < made
    /\ heard' = Append(heard, Chunk(call, Len(heard) + 1))
    /\ stopped' \in BOOLEAN
    /\ UNCHANGED <<phase, call, made, result, lost>>

\* The callback gets noise; it is not called again here either once it refuses.
DeliverNoise ==
    /\ phase = "running"
    /\ lost
    /\ ~stopped
    /\ heard' = Append(heard, Noise)
    /\ stopped' \in BOOLEAN
    /\ UNCHANGED <<phase, call, made, result, lost>>

ReturnTrue ==
    /\ phase = "running"
    /\ stopped \/ Len(heard) = made \/ lost
    /\ phase' = "idle"
    /\ result' = "true"
    /\ UNCHANGED <<call, made, heard, stopped, lost>>

ReturnFalse ==
    /\ phase = "running"
    /\ phase' = "idle"
    /\ result' = "false"
    /\ lost' \in {lost, FALSE}
    /\ UNCHANGED <<call, made, heard, stopped>>

Throw ==
    /\ phase = "running"
    /\ phase' = "idle"
    /\ result' = "thrown"
    /\ lost' \in {lost, TRUE}
    /\ UNCHANGED <<call, made, heard, stopped>>

Next ==
    \/ Call \/ Make \/ Deliver \/ DeliverNoise
    \/ ReturnTrue \/ ReturnFalse \/ Throw

Spec == Init /\ [][Next]_vars
=============================================================================
