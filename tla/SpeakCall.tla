------------------------------ MODULE SpeakCall ------------------------------
(***************************************************************************)
(* ISpTTSEngineImpl::Speak against the SAPI site it speaks to.             *)
(*                                                                         *)
(* SAPI hands Speak a list of fragments and a site.  The host may ask the  *)
(* site at any moment to abort, to skip, or to change the rate or volume;  *)
(* Speak finds out when it calls GetActions, between fragments and before  *)
(* every Write.  A speech fragment is cut into pieces.  The 64-bit DLL     *)
(* sends each to the worker, whose audio comes back chunk by chunk through *)
(* pipe_callback; the 32-bit one synthesizes it in process and writes it   *)
(* whole.  Both write through write_to_site, a site chunk at a time.       *)
(*                                                                         *)
(* Abstracted: the text and the audio (a count of units, of which          *)
(* SITE_CHUNK_BYTES is SiteChunk), the prosody arithmetic, and the pipe    *)
(* (PipeSession): here a piece comes back, or the worker fails at it.  The *)
(* site keeps a request until it is answered, by CompleteSkip, GetRate or  *)
(* GetVolume; an abort stays.  A change of rate or volume it still reports *)
(* is one Speak does not know of.                                          *)
(***************************************************************************)
EXTENDS Integers, FiniteSets

CONSTANTS
    MaxFragments,   \* bound: fragments of one Speak
    MaxPieces,      \* bound: pieces of one fragment
    MaxChunks,      \* bound: worker chunks of a piece, buffers of a silence
    MaxUnits,       \* bound: units of one worker chunk or buffer
    SiteChunk       \* SITE_CHUNK_BYTES, in units

ASSUME SpeakAssumption ==
    {MaxFragments, MaxPieces, MaxChunks, MaxUnits, SiteChunk} \subseteq Nat \ {0}

VARIABLES
    build,      \* "x64" or "x86"
    pc,         \* what Speak is about to do
    source,     \* where the audio of the moment comes from
    fragments, pieces, chunks,   \* how many are still to come
    remaining,  \* units of the write_to_site call still to be written
    aborted,    \* SpeakContext::aborted
    told,       \* the settings GetActions last reported between fragments
    asked,      \* what the site reports in GetActions
    \* the audio, as differences of running totals
    owed,       \* units given to write_to_site and not taken by the site
    drift,      \* SpeakContext::bytes_written less the units taken
    \* for the properties
    events,     \* events added
    cancelled,  \* Speak has seen an abort or a skip
    failed,     \* what failed first: "nothing", the "worker", "other"
    late,       \* Writes since the host asked to abort or skip
    changed     \* settings the host changed since the fragment began

speech == <<build, source, fragments, pieces, chunks, remaining, aborted>>
settings == <<told, changed>>
audio == <<owed, drift>>
history == <<events, cancelled, failed, late>>
vars == <<pc, speech, settings, asked, audio, history>>

Settings == {"rate", "volume"}
Cancels == {"abort", "skip"}
Writing == {"check", "write"}

Failing(what) == IF failed = "nothing" THEN what ELSE failed

Smaller(m, n) == IF m < n THEN m ELSE n

Init ==
    /\ build \in {"x64", "x86"}
    /\ pc = "returned" /\ source = "none"
    /\ fragments = 0 /\ pieces = 0 /\ chunks = 0 /\ remaining = 0
    /\ aborted = FALSE
    /\ told = {} /\ asked = {} /\ changed = {}
    /\ owed = 0 /\ drift = 0
    /\ events = 0 /\ cancelled = FALSE /\ failed = "nothing" /\ late = 0

-----------------------------------------------------------------------------
(* The host, through its site. *)

AskToStop ==
    /\ pc # "returned"
    /\ \E request \in Cancels \ asked : asked' = asked \cup {request}
    /\ UNCHANGED <<pc, speech, settings, audio, history>>

ChangeSetting ==
    /\ pc # "returned"
    /\ \E s \in Settings :
          /\ asked' = asked \cup {s}
          /\ changed' = changed \cup {s}
    /\ UNCHANGED <<pc, speech, told, audio, history>>

-----------------------------------------------------------------------------
(* Speak, from fragment to fragment. *)

\* A new Speak with a site of its own.  GetRate and GetVolume come first.  (A
\* Speak without an engine, or a pipe client, returns before it does anything.)
Call ==
    /\ pc = "returned"
    /\ pc' = "fragment"
    /\ fragments' \in 1..MaxFragments
    /\ aborted' = FALSE
    /\ told' = {} /\ asked' = {} /\ changed' = {}
    /\ owed' = 0 /\ drift' = 0
    /\ events' = 0 /\ cancelled' = FALSE /\ failed' = "nothing" /\ late' = 0
    /\ UNCHANGED <<build, source, pieces, chunks, remaining>>

\* The host sees the request as answered.  Abort comes before skip.
Answered == IF "abort" \in asked THEN asked ELSE asked \ {"skip"}

\* GetActions at the top of the loop.
NextFragment ==
    /\ pc = "fragment"
    /\ fragments > 0
    /\ IF asked \cap Cancels # {}
       THEN /\ pc' = "returned"
            /\ asked' = Answered
            /\ cancelled' = TRUE
            /\ UNCHANGED <<told, changed>>
       ELSE /\ pc' = "adjust"
            /\ told' = asked \cap Settings
            /\ changed' = {}
            /\ UNCHANGED <<asked, cancelled>>
    /\ UNCHANGED <<speech, audio, events, failed, late>>

ReturnOk ==
    /\ pc = "fragment"
    /\ fragments = 0
    /\ pc' = "returned"
    /\ UNCHANGED <<speech, settings, asked, audio, history>>

\* GetRate and GetVolume, each if it was reported (a mutant: or the other).
FirstReported == IF "rate" \in told THEN {"rate"} ELSE told
Reported == told

\* What a fragment is: text, silence, a bookmark, or nothing to act on.  Text
\* comes with the sentence and word events the host asked for, if any.
Adjust ==
    /\ pc = "adjust"
    /\ asked' = asked \ Reported
    /\ fragments' = fragments - 1
    /\ \/ /\ pc' = "piece" /\ pieces' \in 0..MaxPieces
          /\ \/ UNCHANGED events
             \/ events' = events + 1
          /\ UNCHANGED <<source, chunks>>
       \/ /\ pc' = "source" /\ source' = "silence" /\ chunks' \in 0..MaxChunks
          /\ UNCHANGED <<pieces, events>>
       \/ /\ pc' = "fragment" /\ events' = events + 1
          /\ UNCHANGED <<source, chunks, pieces>>
       \/ /\ pc' = "fragment"
          /\ UNCHANGED <<source, chunks, pieces, events>>
    /\ told' = {}
    /\ UNCHANGED <<build, remaining, aborted, changed, audio, cancelled, failed,
                   late>>

\* The loop over the pieces.  A piece may encode to nothing, and in process
\* the engine may have nothing to say.
NextPiece ==
    /\ pc = "piece"
    /\ pieces > 0 /\ ~aborted
    /\ pieces' = pieces - 1
    /\ \/ UNCHANGED <<pc, source, chunks>>
       \/ /\ pc' = "source"
          /\ source' = IF build = "x64" THEN "worker" ELSE "engine"
          /\ chunks' \in IF build = "x64" THEN 0..MaxChunks ELSE {1}
    /\ UNCHANGED <<build, fragments, remaining, aborted, settings, asked,
                   audio, history>>

\* Where a fragment ends: Speak returns when it was cancelled.
GoOn == "fragment"
AfterFragment == IF aborted THEN "returned" ELSE "fragment"

LastPiece ==
    /\ pc = "piece"
    /\ pieces = 0 \/ aborted
    /\ pc' = AfterFragment
    /\ UNCHANGED <<speech, settings, asked, audio, history>>

-----------------------------------------------------------------------------
(* Audio on its way to the site. *)

\* A chunk from the worker, the audio of the engine, or a buffer of zeros:
\* write_to_site is called.  In process a piece is one call of any size.
NextChunk ==
    /\ pc = "source"
    /\ chunks > 0
    /\ chunks' = chunks - 1
    /\ remaining' \in 1..MaxUnits
    /\ owed' = owed + remaining'
    /\ pc' = "check"
    /\ UNCHANGED <<build, source, fragments, pieces, aborted, settings, asked,
                   drift, history>>

LastChunk ==
    /\ pc = "source"
    /\ chunks = 0
    /\ pc' = IF source = "silence" THEN AfterFragment ELSE "piece"
    /\ UNCHANGED <<speech, settings, asked, audio, history>>

\* PipeClient::speak returns false, at any moment before AUDIO_END: no piece
\* of this fragment is tried any more, but the next fragment is.
WorkerFails ==
    /\ pc \in {"source", "drain"}
    /\ source = "worker"
    /\ pc' = AfterFragment
    /\ failed' = Failing("worker")
    /\ UNCHANGED <<speech, settings, asked, audio, events, cancelled, late>>

\* After pipe_callback refused a chunk PipeClient::speak takes what is left
\* of the piece off the pipe and returns true.
Drained ==
    /\ pc = "drain"
    /\ pc' = "piece"
    /\ UNCHANGED <<speech, settings, asked, audio, history>>

\* write_to_site returned false.  The silence loop breaks off (a mutant tries
\* again); pipe_callback refuses the chunk; in process nobody looks, and the
\* next piece is tried unless the host cancelled.
TryAgain == "check"
BreakOff == "fragment"

Refused(stop) ==
    pc' = CASE source = "silence" -> IF stop THEN "returned" ELSE BreakOff
            [] source = "worker" -> "drain"
            [] source = "engine" -> "piece"

\* GetActions before each Write.
Check ==
    /\ pc = "check"
    /\ IF asked \cap Cancels # {}
       THEN /\ aborted' = TRUE
            /\ cancelled' = TRUE
            /\ asked' = Answered
            /\ Refused(TRUE)
       ELSE /\ pc' = "write"
            /\ UNCHANGED <<aborted, cancelled, asked>>
    /\ UNCHANGED <<build, source, fragments, pieces, chunks, remaining, settings,
                   audio, events, failed, late>>

\* What a successful Write of want is credited with when pcbWritten says
\* written.  Mutants: it is believed; everything is believed taken.
TakenAtItsWord(want, written) == written
AlwaysAll(want, written) == want
Credit(want, written) == IF written = 0 \/ written > want THEN want ELSE written

\* Where write_to_site goes after a Write (a mutant asks no more).
NoSecondLook == "write"
LookAgain == "check"

\* The site takes some of it and says so, or takes it all and leaves
\* pcbWritten at 0 or at nonsense; or Write fails.
Write ==
    /\ pc = "write"
    /\ late' = IF asked \cap Cancels = {} THEN late ELSE late + 1
    /\ LET want == Smaller(remaining, SiteChunk) IN
       \/ \E k \in 1..want : \E written \in {k} \cup (IF k = want THEN {0, want + 1} ELSE {}) :
             LET credit == Credit(want, written) IN
             /\ owed' = owed - k
             /\ drift' = drift + credit - k
             /\ remaining' = remaining - credit
             /\ pc' = IF remaining' > 0 THEN LookAgain ELSE "source"
             /\ UNCHANGED failed
       \/ /\ Refused(FALSE)
          /\ failed' = Failing("other")
          /\ UNCHANGED <<audio, remaining>>
    /\ UNCHANGED <<build, source, fragments, pieces, chunks, aborted, settings,
                   asked, events, cancelled>>

\* bad_alloc where a fragment or a piece is prepared.
OutOfMemory ==
    /\ pc \in {"piece", "source", "drain"}
    /\ pc' = "returned"
    /\ failed' = Failing("other")
    /\ UNCHANGED <<speech, settings, asked, audio, events, cancelled, late>>

Speaking ==
    \/ NextFragment \/ ReturnOk \/ Adjust \/ NextPiece \/ LastPiece
    \/ NextChunk \/ LastChunk \/ WorkerFails \/ Drained \/ Check \/ Write
    \/ OutOfMemory

Next == Call \/ Speaking \/ AskToStop \/ ChangeSetting

Spec == Init /\ [][Next]_vars

\* The host's thread runs Speak, and Write, GetActions and the worker answer.
FairSpec == Spec /\ WF_vars(Speaking)

-----------------------------------------------------------------------------
TypeOK ==
    /\ build \in {"x64", "x86"}
    /\ pc \in {"returned", "fragment", "adjust", "piece", "source", "drain"} \cup Writing
    /\ source \in {"none", "silence", "worker", "engine"}
    /\ fragments \in 0..MaxFragments
    /\ pieces \in 0..MaxPieces
    /\ chunks \in 0..MaxChunks
    /\ remaining \in 0..MaxUnits
    /\ aborted \in BOOLEAN
    /\ told \subseteq Settings
    /\ asked \subseteq Settings \cup Cancels
    /\ owed \in Nat
    /\ drift \in Int
    /\ events \in 0..MaxFragments
    /\ cancelled \in BOOLEAN
    /\ failed \in {"nothing", "worker", "other"}
    /\ late \in Nat
    /\ changed \subseteq Settings

\* ullAudioStreamOffset of every event is bytes_written: wherever Speak adds
\* one, that is the amount of audio the site has really taken, however the
\* site fills in pcbWritten.
OffsetsTrue == pc = "adjust" => drift = 0

\* "Trusting it truncates an utterance mid-word": a Speak that returns with
\* nothing cancelled and nothing failed has given the site every unit of
\* every piece, also through a site that takes a Write in parts.
NothingTruncated ==
    pc = "returned" /\ ~cancelled /\ failed = "nothing" => owed = 0

\* Once Speak has seen an abort or a skip the site gets nothing from it any
\* more, neither audio nor events, in whichever loop it saw it: a skip that
\* was answered is no longer to be seen by the loops outside.
QuietAfterCancel ==
    [][cancelled /\ pc # "returned" => UNCHANGED <<owed, events>>]_vars

\* "A cancel is noticed between" site chunks: from the moment the host asks,
\* at most the one Write already decided on reaches the site.
PromptCancel == late <= 1

\* "Rate and volume can be changed while an utterance is already playing": a
\* fragment is spoken with what the host last set, unless it changed that
\* after the fragment began.
CurrentSettings ==
    pc \in {"piece", "source", "drain"} \cup Writing =>
        asked \cap Settings \subseteq changed

\* Speak returns, whatever the site writes to pcbWritten.
SpeakReturns == pc # "returned" ~> pc = "returned"

=============================================================================
