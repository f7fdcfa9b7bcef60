-------------------------- MODULE SpeakCall_proofs --------------------------
(***************************************************************************)
(* What Speak promises its host, for every number of fragments, pieces,    *)
(* chunks and units and every size of a site chunk.                        *)
(*                                                                         *)
(* The invariant has a part for each kind of thing a step can upset: the   *)
(* audio (what is owed is what the Write under way still has to bring),    *)
(* the cancel (once it is seen Speak is on its way out, and before it is   *)
(* seen no Write was decided on after it), and the settings. That Speak    *)
(* cannot go on for ever has a measure of its own: the work left.          *)
(***************************************************************************)
EXTENDS SpeakCall, TLAPS

AudioInv ==
    /\ drift = 0
    /\ owed \in Nat
    /\ pc \in Writing => /\ remaining \in 1..MaxUnits
                         /\ remaining <= owed
    /\ pc \in {"source"} \cup Writing => source \in {"silence", "worker", "engine"}
    /\ ~cancelled /\ failed = "nothing" =>
          owed = IF pc \in Writing THEN remaining ELSE 0
    /\ pc = "drain" => cancelled \/ failed # "nothing"

CancelInv ==
    /\ aborted => cancelled
    /\ cancelled => pc = "returned" \/ (aborted /\ pc \in {"drain", "piece"})
    /\ late \in {0, 1}
    /\ pc = "write" => late = 0
    /\ late = 1 => cancelled \/ asked \cap Cancels # {} \/ pc = "returned"

SettingsInv ==
    /\ pc = "adjust" => asked \cap Settings \subseteq told \cup changed
    /\ CurrentSettings

CountInv ==
    /\ pc = "adjust" => fragments > 0
    /\ events + fragments <= MaxFragments

SpeakInv == TypeOK /\ AudioInv /\ CancelInv /\ SettingsInv /\ CountInv

LEMMA Bounds ==
    /\ MaxFragments \in Nat \ {0} /\ MaxPieces \in Nat \ {0}
    /\ MaxChunks \in Nat \ {0} /\ MaxUnits \in Nat \ {0} /\ SiteChunk \in Nat \ {0}
BY SpeakAssumption

LEMMA SpeakInit == Init => SpeakInv
<1> SUFFICES ASSUME Init PROVE SpeakInv
  OBVIOUS
<1>0. /\ 0 \in 0..MaxFragments /\ 0 \in 0..MaxPieces
      /\ 0 \in 0..MaxChunks /\ 0 \in 0..MaxUnits
  BY Bounds
<1>1. TypeOK
  <2>1. told \subseteq Settings /\ asked \subseteq Settings \cup Cancels /\ changed \subseteq Settings
    BY DEF Init
  <2>2. owed \in Nat /\ drift \in Int /\ late \in Nat
    BY DEF Init
  <2>3. /\ fragments \in 0..MaxFragments /\ pieces \in 0..MaxPieces /\ chunks \in 0..MaxChunks
        /\ remaining \in 0..MaxUnits /\ events \in 0..MaxFragments
    BY <1>0 DEF Init
  <2> QED
    BY <2>1, <2>2, <2>3 DEF Init, TypeOK, Writing
<1>2. AudioInv /\ CancelInv /\ SettingsInv /\ CountInv
  BY Bounds DEF Init, AudioInv, CancelInv, SettingsInv, CountInv, CurrentSettings, Writing
<1> QED
  BY <1>1, <1>2 DEF SpeakInv

-----------------------------------------------------------------------------
(* Credit is what the site took, whichever way it filled in pcbWritten.    *)
LEMMA CreditIsTaken ==
    ASSUME NEW want \in Nat \ {0}, NEW k \in 1..want,
           NEW written \in {k} \cup (IF k = want THEN {0, want + 1} ELSE {})
    PROVE  Credit(want, written) = k
BY DEF Credit

LEMMA HostStep == SpeakInv /\ (AskToStop \/ ChangeSetting) => SpeakInv'
<1> SUFFICES ASSUME SpeakInv, AskToStop \/ ChangeSetting PROVE SpeakInv'
  OBVIOUS
<1> USE DEF SpeakInv, TypeOK, Settings, Cancels, Writing
<1>1. CASE AskToStop
  <2>1. PICK request \in Cancels \ asked : asked' = asked \cup {request}
    BY <1>1 DEF AskToStop
  <2>2. TypeOK' /\ AudioInv' /\ CountInv'
    BY <1>1, <2>1 DEF AskToStop, AudioInv, CountInv, speech, settings, audio, history
  <2>3. CancelInv' /\ SettingsInv'
    BY <1>1, <2>1 DEF AskToStop, CancelInv, SettingsInv, CurrentSettings, speech, settings,
                      audio, history
  <2> QED
    BY <2>2, <2>3
<1>2. CASE ChangeSetting
  <2>1. PICK s \in Settings : asked' = asked \cup {s} /\ changed' = changed \cup {s}
    BY <1>2 DEF ChangeSetting
  <2>2. TypeOK' /\ AudioInv' /\ CountInv'
    BY <1>2, <2>1 DEF ChangeSetting, AudioInv, CountInv, speech, audio, history
  <2>3. CancelInv' /\ SettingsInv'
    BY <1>2, <2>1 DEF ChangeSetting, CancelInv, SettingsInv, CurrentSettings, speech,
                      audio, history
  <2> QED
    BY <2>2, <2>3
<1> QED
  BY <1>1, <1>2

\* Nothing added to a number of a range stays in it.
LEMMA CountOfRange == ASSUME NEW n \in Nat, NEW f \in 1..n PROVE 0 + f <= n
OBVIOUS

LEMMA CallStep == SpeakInv /\ Call => SpeakInv'
<1> SUFFICES ASSUME SpeakInv, Call PROVE SpeakInv'
  OBVIOUS
<1>0. fragments' \in 1..MaxFragments /\ events' = 0 /\ pc' = "fragment"
  BY DEF Call
<1>1. TypeOK'
  <2>1. fragments' \in 0..MaxFragments /\ events' \in 0..MaxFragments
    BY <1>0, Bounds
  <2>2. owed' \in Nat /\ drift' \in Int /\ late' \in Nat
    BY DEF Call
  <2>3. told' \subseteq Settings /\ asked' \subseteq Settings \cup Cancels /\ changed' \subseteq Settings
    BY DEF Call
  <2> QED
    BY <1>0, <2>1, <2>2, <2>3 DEF SpeakInv, Call, TypeOK, Writing
<1>2. AudioInv' /\ CancelInv' /\ SettingsInv'
  BY DEF Call, AudioInv, CancelInv, SettingsInv, CurrentSettings, Writing
<1>3. CountInv'
  <2>1. fragments' \in 1..MaxFragments /\ MaxFragments \in Nat
    BY <1>0, Bounds
  <2>2. events' + fragments' <= MaxFragments
    <3>1. events' + fragments' = 0 + fragments'
      BY <1>0
    <3>2. 0 + fragments' <= MaxFragments
      BY <2>1, CountOfRange
    <3> QED
      BY <3>1, <3>2
  <2>3. pc' # "adjust"
    BY <1>0
  <2> QED
    BY <2>2, <2>3 DEF CountInv
<1> QED
  BY <1>1, <1>2, <1>3 DEF SpeakInv

LEMMA FragmentStep ==
    SpeakInv /\ (NextFragment \/ ReturnOk \/ Adjust) => SpeakInv'
<1> SUFFICES ASSUME SpeakInv, NextFragment \/ ReturnOk \/ Adjust PROVE SpeakInv'
  OBVIOUS
<1> USE Bounds DEF SpeakInv, TypeOK, Settings, Cancels, Writing
<1>1. CASE NextFragment
  <2>1. TypeOK' /\ AudioInv' /\ CountInv'
    BY <1>1 DEF NextFragment, Answered, AudioInv, CountInv, speech, audio
  <2>2. CancelInv' /\ SettingsInv'
    BY <1>1 DEF NextFragment, Answered, CancelInv, SettingsInv, CurrentSettings, speech, audio
  <2> QED
    BY <2>1, <2>2
<1>2. CASE ReturnOk
  BY <1>2 DEF ReturnOk, AudioInv, CountInv, CancelInv, SettingsInv, CurrentSettings,
              speech, settings, audio, history
<1>3. CASE Adjust
  <2>1. TypeOK' /\ CountInv'
    BY <1>3 DEF Adjust, Reported, AudioInv, CountInv, audio
  <2>2. AudioInv'
    BY <1>3 DEF Adjust, AudioInv, audio
  <2>3. CancelInv' /\ SettingsInv'
    BY <1>3 DEF Adjust, Reported, CancelInv, SettingsInv, CurrentSettings
  <2> QED
    BY <2>1, <2>2, <2>3
<1> QED
  BY <1>1, <1>2, <1>3

LEMMA PieceStep ==
    SpeakInv /\ (NextPiece \/ LastPiece \/ NextChunk \/ LastChunk) => SpeakInv'
<1> SUFFICES ASSUME SpeakInv, NextPiece \/ LastPiece \/ NextChunk \/ LastChunk
             PROVE  SpeakInv'
  OBVIOUS
<1> USE Bounds
    DEF SpeakInv, TypeOK, Settings, Cancels, Writing, AudioInv, CountInv, CancelInv,
        SettingsInv, CurrentSettings
<1>1. CASE NextPiece
  BY <1>1 DEF NextPiece, settings, audio, history
<1>2. CASE LastPiece
  BY <1>2 DEF LastPiece, AfterFragment, speech, settings, audio, history
<1>3. CASE NextChunk
  <2>1. PICK n \in 1..MaxUnits : remaining' = n /\ owed' = owed + n
    BY <1>3 DEF NextChunk
  <2>2. pc' = "check" /\ chunks' = chunks - 1 /\ chunks > 0 /\ pc = "source"
    BY <1>3 DEF NextChunk
  <2>3. UNCHANGED <<build, source, fragments, pieces, aborted, settings, asked, drift, history>>
    BY <1>3 DEF NextChunk
  <2>4. TypeOK'
    BY <2>1, <2>2, <2>3 DEF settings, history
  <2>5. CountInv' /\ CancelInv' /\ SettingsInv'
    BY <2>2, <2>3 DEF settings, history
  <2>6. AudioInv'
    BY <2>1, <2>2, <2>3 DEF history
  <2> QED
    BY <2>4, <2>5, <2>6
<1>4. CASE LastChunk
  BY <1>4 DEF LastChunk, AfterFragment, speech, settings, audio, history
<1> QED
  BY <1>1, <1>2, <1>3, <1>4

LEMMA BrokenStep ==
    SpeakInv /\ (WorkerFails \/ Drained \/ OutOfMemory) => SpeakInv'
<1> SUFFICES ASSUME SpeakInv, WorkerFails \/ Drained \/ OutOfMemory PROVE SpeakInv'
  OBVIOUS
<1> USE DEF SpeakInv, TypeOK, Settings, Cancels, Writing, AudioInv, CountInv, CancelInv,
            SettingsInv, CurrentSettings, Failing
<1>1. CASE WorkerFails
  BY <1>1 DEF WorkerFails, AfterFragment, speech, settings, audio
<1>2. CASE Drained
  BY <1>2 DEF Drained, speech, settings, audio, history
<1>3. CASE OutOfMemory
  BY <1>3 DEF OutOfMemory, speech, settings, audio
<1> QED
  BY <1>1, <1>2, <1>3

LEMMA CheckStep == SpeakInv /\ Check => SpeakInv'
<1> SUFFICES ASSUME SpeakInv, Check PROVE SpeakInv'
  OBVIOUS
<1> USE DEF SpeakInv, TypeOK, Settings, Cancels, Writing, AudioInv, CountInv, CancelInv,
            SettingsInv, CurrentSettings
<1>1. CASE asked \cap Cancels # {}
  <2>1. source \in {"silence", "worker", "engine"}
    BY DEF Check
  <2>2. pc' = CASE source = "silence" -> "returned"
                [] source = "worker" -> "drain"
                [] source = "engine" -> "piece"
    BY <1>1 DEF Check, Refused
  <2> QED
    BY <1>1, <2>1, <2>2 DEF Check, Answered, settings, audio
<1>2. CASE asked \cap Cancels = {}
  BY <1>2 DEF Check, settings, audio
<1> QED
  BY <1>1, <1>2

LEMMA WriteStep == SpeakInv /\ Write => SpeakInv'
<1> SUFFICES ASSUME SpeakInv, Write PROVE SpeakInv'
  OBVIOUS
<1> USE Bounds
    DEF SpeakInv, TypeOK, Settings, Cancels, Writing, AudioInv, CountInv, CancelInv,
        SettingsInv, CurrentSettings
<1> DEFINE want == Smaller(remaining, SiteChunk)
<1>1. want \in Nat \ {0} /\ want <= remaining
  BY DEF Write, Smaller
<1>2. late' = IF asked \cap Cancels = {} THEN late ELSE late + 1
  BY DEF Write
<1>3. ASSUME NEW k \in 1..want, owed' = owed - k, drift' = drift,
             remaining' = remaining - k,
             pc' = IF remaining - k > 0 THEN "check" ELSE "source",
             failed' = failed
      PROVE  SpeakInv'
  BY <1>1, <1>2, <1>3 DEF Write, settings
<1>4. ASSUME Refused(FALSE), failed' = Failing("other"), UNCHANGED <<audio, remaining>>
      PROVE  SpeakInv'
  <2>1. source \in {"silence", "worker", "engine"}
    BY DEF Write
  <2>2. pc' \in {"fragment", "drain", "piece"}
    BY <1>4, <2>1 DEF Refused, BreakOff
  <2>3. failed' \in {"worker", "other"}
    BY <1>4 DEF Failing
  <2> QED
    BY <1>2, <1>4, <2>2, <2>3 DEF Write, settings, audio
<1>5. ASSUME NEW k \in 1..want,
             NEW written \in {k} \cup (IF k = want THEN {0, want + 1} ELSE {}),
             owed' = owed - k,
             drift' = drift + Credit(want, written) - k,
             remaining' = remaining - Credit(want, written),
             pc' = IF remaining' > 0 THEN LookAgain ELSE "source",
             failed' = failed
      PROVE  SpeakInv'
  <2>1. Credit(want, written) = k
    BY <1>1, <1>5, CreditIsTaken
  <2>2. drift' = drift /\ remaining' = remaining - k
    BY <1>5, <2>1
  <2> QED
    BY <1>3, <1>5, <2>2 DEF LookAgain
<1> QED
  BY <1>4, <1>5 DEF Write

LEMMA SpeakStep == SpeakInv /\ [Next]_vars => SpeakInv'
<1> SUFFICES ASSUME SpeakInv, [Next]_vars PROVE SpeakInv'
  OBVIOUS
<1>1. CASE Next
  BY <1>1, HostStep, CallStep, FragmentStep, PieceStep, BrokenStep, CheckStep, WriteStep
     DEF Next, Speaking
<1>2. CASE UNCHANGED vars
  BY <1>2 DEF vars, speech, settings, audio, history, SpeakInv, TypeOK, AudioInv,
              CancelInv, SettingsInv, CountInv, CurrentSettings, Writing
<1> QED
  BY <1>1, <1>2

\* What the theorems below rest on, in every reachable state.
THEOREM SpeakInvariant == Spec => []SpeakInv
BY SpeakInit, SpeakStep, PTL DEF Spec

-----------------------------------------------------------------------------
\* The counters stay in their ranges, the number of events among them.
THEOREM SpeakTypeOK == Spec => []TypeOK
<1>1. SpeakInv => TypeOK
  BY DEF SpeakInv
<1> QED
  BY <1>1, SpeakInvariant, PTL

\* An event's offset is the audio the site has taken, in every state and not
\* only where one is added.
THEOREM OffsetsAlwaysTrue == Spec => []OffsetsTrue
<1>1. SpeakInv => OffsetsTrue
  BY DEF SpeakInv, AudioInv, OffsetsTrue
<1> QED
  BY <1>1, SpeakInvariant, PTL

\* A Speak that returns uncancelled and unfailed has brought all its audio.
THEOREM NothingIsTruncated == Spec => []NothingTruncated
<1>1. SpeakInv => NothingTruncated
  BY DEF SpeakInv, AudioInv, NothingTruncated, Writing
<1> QED
  BY <1>1, SpeakInvariant, PTL

\* One Write at most reaches the site after the host has asked to stop.
THEOREM CancelsArePrompt == Spec => []PromptCancel
<1>1. SpeakInv => PromptCancel
  BY DEF SpeakInv, CancelInv, PromptCancel
<1> QED
  BY <1>1, SpeakInvariant, PTL

\* A fragment is spoken with the settings last made before it began.
THEOREM SettingsAreCurrent == Spec => []CurrentSettings
<1>1. SpeakInv => CurrentSettings
  BY DEF SpeakInv, SettingsInv
<1> QED
  BY <1>1, SpeakInvariant, PTL

\* After a cancel was seen nothing more is given to the site.
THEOREM NothingAfterCancel == Spec => QuietAfterCancel
<1>1. SpeakInv /\ [Next]_vars
         => [cancelled /\ pc # "returned" => UNCHANGED <<owed, events>>]_vars
  BY DEF SpeakInv, CancelInv, Next, Speaking, AskToStop, ChangeSetting, Call, NextFragment,
         ReturnOk, Adjust, NextPiece, LastPiece, NextChunk, LastChunk, WorkerFails, Drained,
         Check, Write, OutOfMemory, audio, history
<1> QED
  BY <1>1, SpeakInvariant, PTL DEF Spec, QuietAfterCancel

-----------------------------------------------------------------------------
(* Speak returns: each of its steps brings it nearer to that.              *)

\* Where in its loops Speak is: on its way out, between two fragments or in
\* one; and in a fragment, between two pieces or in one.
Level ==
    CASE pc = "returned" -> 0 [] pc = "adjust" -> 1 [] pc = "fragment" -> 2
      [] OTHER -> 3

Stage == CASE pc = "piece" -> 0 [] pc = "drain" -> 1 [] OTHER -> 2

One(condition) == IF condition THEN 1 ELSE 0

\* What is left to do, the outermost loop first.
Work ==
    <<fragments, Level, pieces, Stage, chunks, One(pc \in Writing), remaining,
      One(pc = "check")>>

\* Less of it is left: less at one place, and nothing more outside of that.
Less ==
    \E i \in 1..8 : Work'[i] < Work[i] /\ \A j \in 1..(i - 1) : Work'[j] = Work[j]

\* No loop begins with a number below zero of what it counts.
LEMMA WorkIsCounted == SpeakInv => Work \in [1..8 -> Nat]
<1> SUFFICES ASSUME SpeakInv, NEW i \in 1..8 PROVE Work[i] \in Nat
  BY DEF Work
<1>1. /\ fragments \in Nat /\ pieces \in Nat /\ chunks \in Nat /\ remaining \in Nat
      /\ Level \in Nat /\ Stage \in Nat /\ One(pc \in Writing) \in Nat
      /\ One(pc = "check") \in Nat
  BY DEF SpeakInv, TypeOK, Level, Stage, One
<1> QED
  BY <1>1 DEF Work

\* A step is less at the first place at which it is anything else.
LEMMA FirstLess ==
    ASSUME \/ fragments' < fragments
           \/ /\ fragments' = fragments
              /\ \/ Level' < Level
                 \/ /\ Level' = Level
                    /\ \/ pieces' < pieces
                       \/ /\ pieces' = pieces
                          /\ \/ Stage' < Stage
                             \/ /\ Stage' = Stage
                                /\ \/ chunks' < chunks
                                   \/ /\ chunks' = chunks
                                      /\ \/ One(pc \in Writing)' < One(pc \in Writing)
                                         \/ /\ One(pc \in Writing)' = One(pc \in Writing)
                                            /\ \/ remaining' < remaining
                                               \/ /\ remaining' = remaining
                                                  /\ One(pc = "check")' < One(pc = "check")
    PROVE  Less
<1> DEFINE Same(i) == \A j \in 1..(i - 1) : Work'[j] = Work[j]
<1>1. /\ Work[1] = fragments /\ Work[2] = Level /\ Work[3] = pieces /\ Work[4] = Stage
      /\ Work[5] = chunks /\ Work[6] = One(pc \in Writing) /\ Work[7] = remaining
      /\ Work[8] = One(pc = "check")
  BY DEF Work
<1>2. /\ Work'[1] = fragments' /\ Work'[2] = Level' /\ Work'[3] = pieces'
      /\ Work'[4] = Stage' /\ Work'[5] = chunks' /\ Work'[6] = One(pc \in Writing)'
      /\ Work'[7] = remaining' /\ Work'[8] = One(pc = "check")'
  BY DEF Work
<1> QED
  BY <1>1, <1>2 DEF Less

LEMMA SpeakingIsLess == SpeakInv /\ Speaking => Less
<1> SUFFICES ASSUME SpeakInv, Speaking PROVE Less
  OBVIOUS
<1>1. /\ fragments \in Nat /\ pieces \in Nat /\ chunks \in Nat /\ remaining \in Nat
      /\ pc \in Writing => remaining > 0 /\ source \in {"silence", "worker", "engine"}
  BY DEF SpeakInv, TypeOK, AudioInv
<1> USE DEF Level, Stage, One, Writing, speech
<1>2. CASE NextFragment \/ ReturnOk \/ LastPiece \/ WorkerFails \/ OutOfMemory
  <2>1. fragments' = fragments /\ Level' < Level
    BY <1>2 DEF NextFragment, ReturnOk, LastPiece, WorkerFails, OutOfMemory, AfterFragment
  <2> QED
    BY <2>1, FirstLess
<1>3. CASE Adjust
  <2>1. fragments' < fragments
    BY <1>1, <1>3 DEF Adjust
  <2> QED
    BY <2>1, FirstLess
<1>4. CASE NextPiece
  <2>1. fragments' = fragments /\ Level' = Level /\ pieces' < pieces
    BY <1>1, <1>4 DEF NextPiece
  <2> QED
    BY <2>1, FirstLess
<1>5. CASE NextChunk
  <2>1. /\ fragments' = fragments /\ Level' = Level /\ pieces' = pieces
        /\ Stage' = Stage /\ chunks' < chunks
    BY <1>1, <1>5 DEF NextChunk
  <2> QED
    BY <2>1, FirstLess
<1>6. CASE LastChunk \/ Drained
  <2>1. /\ fragments' = fragments /\ pieces' = pieces
        /\ Level' < Level \/ (Level' = Level /\ Stage' < Stage)
    BY <1>6 DEF LastChunk, Drained, AfterFragment
  <2> QED
    BY <2>1, FirstLess
<1>7. ASSUME pc \in Writing, UNCHANGED <<fragments, pieces>>,
             NEW stop \in BOOLEAN, Refused(stop)
      PROVE  Less
  <2>1. Level' < Level \/ (Level' = Level /\ Stage' < Stage)
    BY <1>1, <1>7 DEF Refused, BreakOff
  <2> QED
    BY <1>7, <2>1, FirstLess
<1>8. CASE Check
  <2>1. pc = "check" /\ UNCHANGED <<fragments, pieces, chunks, remaining>>
    BY <1>8 DEF Check
  <2>2. CASE pc' = "write"
    <3>1. /\ Level' = Level /\ Stage' = Stage
          /\ One(pc \in Writing)' = One(pc \in Writing)
          /\ One(pc = "check")' < One(pc = "check")
      BY <2>1, <2>2
    <3> QED
      BY <2>1, <3>1, FirstLess
  <2>3. CASE Refused(TRUE)
    BY <1>7, <2>1, <2>3
  <2> QED
    BY <1>8, <2>2, <2>3 DEF Check
<1>9. CASE Write
  <2> DEFINE want == Smaller(remaining, SiteChunk)
  <2>1. pc = "write" /\ UNCHANGED <<fragments, pieces, chunks>>
    BY <1>9 DEF Write
  <2>2. want \in Nat \ {0}
    BY <1>1, <2>1, Bounds DEF Smaller
  <2>3. CASE Refused(FALSE)
    BY <1>7, <2>1, <2>3
  <2>4. ASSUME NEW k \in 1..want,
               NEW written \in {k} \cup (IF k = want THEN {0, want + 1} ELSE {}),
               remaining' = remaining - Credit(want, written),
               pc' = IF remaining' > 0 THEN LookAgain ELSE "source"
        PROVE  Less
    <3>1. remaining' = remaining - k
      BY <2>2, <2>4, CreditIsTaken
    <3>2. remaining' < remaining
      BY <1>1, <2>2, <3>1
    <3>3. /\ Level' = Level /\ Stage' = Stage
          /\ \/ One(pc \in Writing)' < One(pc \in Writing)
             \/ One(pc \in Writing)' = One(pc \in Writing)
      BY <2>1, <2>4 DEF LookAgain
    <3> QED
      BY <2>1, <3>2, <3>3, FirstLess
  <2> QED
    BY <1>9, <2>3, <2>4 DEF Write
<1> QED
  BY <1>2, <1>3, <1>4, <1>5, <1>6, <1>8, <1>9 DEF Speaking

\* Every step of Speak leaves less of the call to do, whatever the site writes
\* to pcbWritten and however often the host asks for something, and a request
\* of the host adds nothing: the work of a call is a tuple of natural numbers
\* in lexicographic order, so it does not go on for ever.
THEOREM SpeakGetsOn ==
    Spec => [][/\ Work \in [1..8 -> Nat]
               /\ Speaking => Less
               /\ pc # "returned" /\ ~Speaking => UNCHANGED Work]_vars
<1>1. ASSUME SpeakInv, Next
      PROVE  /\ Work \in [1..8 -> Nat]
             /\ Speaking => Less
             /\ pc # "returned" /\ ~Speaking => UNCHANGED Work
  <2>1. CASE AskToStop \/ ChangeSetting
    BY <2>1, WorkIsCounted, <1>1, SpeakingIsLess
       DEF AskToStop, ChangeSetting, speech, Work, Level, Stage, One
  <2> QED
    BY <1>1, <2>1, WorkIsCounted, SpeakingIsLess DEF Next, Call
<1> QED
  BY <1>1, SpeakInvariant, PTL DEF Spec

=============================================================================
