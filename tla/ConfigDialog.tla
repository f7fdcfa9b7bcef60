---------------------------- MODULE ConfigDialog ----------------------------
(***************************************************************************)
(* The configuration utility and the voices that speak with what it saves. *)
(*                                                                         *)
(* The window is loaded from the registry, changed by the user, and saved  *)
(* one value at a time; a second process may run with /reset and write the *)
(* shipped values, one at a time; and Speak, in any number of hosts, reads *)
(* the values one at a time for every utterance.  Any write may fail.      *)
(*                                                                         *)
(* Four variables are there for the properties alone: agreed is what the   *)
(* last finished save or reset made of the registry, if nothing was        *)
(* written since and nobody else wrote meanwhile (lone); expects is what   *)
(* was agreed when a reader began, if nothing has been written since; and  *)
(* found is the registry as the window found it, if a save had made it and *)
(* no control was touched since.                                           *)
(***************************************************************************)
EXTENDS VoiceSettings

CONSTANTS
    Hosts,        \* the voices, each in a host
    Tokens,       \* the voices that are asked for by name
    Nothing,
    HandEdited,   \* registries that no program has written as a whole
    Positions,    \* the positions the user moves sliders to
    Dictionary,   \* what the switch in acuvoice.ini may be at first
    Events        \* how often in all the window is opened, a control is
                  \* changed, /reset is run and a write to the registry, but
                  \* for that of Logging, fails

ASSUME DialogAssumption ==
    /\ "window" \notin Hosts
    /\ HandEdited \subseteq [Values -> Int \cup {Absent}]
    /\ Positions \subseteq 0..100
    /\ Events \in Nat
    /\ Dictionary \subseteq {0, 1}

VARIABLES
    registry,     \* the values under HKCU
    dictionary,   \* CUSTOM in acuvoice.ini, 0 or 1
    window,       \* "closed", "loading", "ready", "saving" or "told"
    controls,     \* slider positions and check boxes
    said,         \* what the last message box said
    at,           \* what each reader reads next, 0: none
    got,          \* what it has read
    write,        \* what each writer writes next, 0: none; and its ok
    voice,        \* the token of each voice
    agreed, lone, expects, found,
    left          \* of Events

dialogVars == <<window, controls, said, found>>
readVars == <<at, got, expects>>
writeVars == <<write, agreed, lone>>
vars == <<registry, dictionary, dialogVars, voice, readVars, writeVars, left>>

Readers == Hosts \cup {"window"}
Writers == {"save", "reset"}
Sliders == Numbers \cup Multipliers
Boxes == Range(Switches) \cup {"OverridePauses", "Logging", "UserDict"}
NotRead == [v \in Values |-> 0]
Blank == [c \in Sliders \cup Boxes |-> 0]

Init ==
    /\ registry \in HandEdited
    /\ dictionary \in Dictionary
    /\ window = "closed"
    /\ controls = Blank
    /\ said = [registry |-> "nothing", dictionary |-> TRUE]
    /\ at = [r \in Readers |-> 0]
    /\ got = [r \in Readers |-> NotRead]
    /\ expects = [r \in Readers |-> Nothing]
    /\ write = [w \in Writers |-> [at |-> 0, ok |-> TRUE]]
    /\ agreed = Nothing /\ lone = TRUE /\ found = Nothing
    /\ voice = [h \in Hosts |-> "roger"]
    /\ left = Events

Spend == left > 0 /\ left' = left - 1

-----------------------------------------------------------------------------
(* Reading, one value at a time.                                           *)
ReadOrder(r) ==
    IF r = "window" THEN CustomOrder \o GlobalOrder \o <<Logging>>
    ELSE IF voice[r] = "custom" THEN GlobalOrder \o CustomOrder
    ELSE GlobalOrder

BeginReading(r) ==
    /\ at[r] = 0
    /\ at' = [at EXCEPT ![r] = 1]
    /\ expects' = [expects EXCEPT ![r] = agreed]

ReadNext(r) ==
    /\ at[r] \in 1..Len(ReadOrder(r))
    /\ LET v == ReadOrder(r)[at[r]]
       IN  got' = [got EXCEPT ![r][v] = read_dword(registry, v)]
    /\ at' = [at EXCEPT ![r] = @ + 1]
    /\ UNCHANGED <<registry, dictionary, dialogVars, voice, expects, writeVars, left>>

HasRead(r) == at[r] = Len(ReadOrder(r)) + 1

DoneReading(r) ==
    /\ HasRead(r)
    /\ at' = [at EXCEPT ![r] = 0]
    /\ got' = [got EXCEPT ![r] = NotRead]

-----------------------------------------------------------------------------
(* Speak, in a host.                                                       *)
\* SetObjectToken: a token whose name is not there or not known is Roger's.
Named(id) == IF id = "custom" \/ id \in DOMAIN PRESETS THEN id ELSE "roger"

SetObjectToken(h, id) ==
    /\ at[h] = 0
    /\ voice' = [voice EXCEPT ![h] = Named(id)]
    /\ UNCHANGED <<registry, dictionary, dialogVars, readVars, writeVars, left>>

Speak(h) ==
    /\ BeginReading(h)
    /\ UNCHANGED <<registry, dictionary, dialogVars, voice, got, writeVars, left>>

\* What an utterance is spoken with, once everything has been read.
VoiceOf(h) ==
    IF voice[h] = "custom" THEN Loaded(CUSTOM_KEY, got[h]) ELSE preset_params(voice[h])

Spoken(h) == build_params(VoiceOf(h), Loaded(GLOBAL_KEY, got[h]))

Utter(h) ==
    /\ DoneReading(h)
    /\ expects' = [expects EXCEPT ![h] = Nothing]
    /\ UNCHANGED <<registry, dictionary, dialogVars, voice, writeVars, left>>

Host(h) ==
    \/ \E id \in Tokens : SetObjectToken(h, id)
    \/ Speak(h) \/ ReadNext(h) \/ Utter(h)

-----------------------------------------------------------------------------
(* The window.                                                             *)
Open ==
    /\ window = "closed" /\ Spend
    /\ window' = "loading"
    /\ BeginReading("window")
    /\ UNCHANGED <<registry, dictionary, controls, said, found, voice, got, writeVars>>

\* The controls for a voice's and the user's values; a switch is shown when
\* either has it.
load_into_dialog ==
    /\ window = "loading"
    /\ DoneReading("window")
    /\ LET v == Loaded(CUSTOM_KEY, got["window"])
           g == Loaded(GLOBAL_KEY, got["window"])
       IN  controls' = [c \in Sliders \cup Boxes |->
               IF c \in Numbers THEN Shown(c, v[c])
               ELSE IF c \in Multipliers THEN Shown(c, g[c])
               ELSE IF c \in Range(Switches) THEN IF v[c] = 1 \/ g[c] = 1 THEN 1 ELSE 0
               ELSE IF c = "OverridePauses" THEN g[c]
               ELSE IF c = "Logging" THEN Taken(c, got["window"][Logging])
               ELSE dictionary]
    /\ window' = "ready"
    /\ found' = IF expects["window"] # Nothing /\ expects["window"].by = "save"
                THEN registry ELSE Nothing
    /\ expects' = [expects EXCEPT !["window"] = Nothing]
    /\ UNCHANGED <<registry, dictionary, said, voice, writeVars, left>>

Touch(new) ==
    /\ window = "ready" /\ Spend
    /\ controls' = new
    /\ found' = Nothing
    /\ UNCHANGED <<registry, dictionary, window, said, voice, readVars, writeVars>>

Move == \E c \in Sliders \cup Boxes : \E n \in IF c \in Boxes THEN {0, 1} ELSE Positions :
            controls[c] # n /\ Touch([controls EXCEPT ![c] = n])

reset_to_defaults ==
    Touch([c \in Sliders \cup Boxes |->
               IF c \in Sliders THEN Shown(c, Default[c])
               ELSE IF c \in {"Logging", "UserDict"} THEN controls[c] ELSE 0])

copy_from_preset(id) ==
    Touch([c \in Sliders \cup Boxes |->
               IF c \in Numbers THEN Shown(c, preset_params(id)[c]) ELSE controls[c]])

Close ==
    /\ window = "ready"
    /\ window' = "closed" /\ controls' = Blank /\ found' = Nothing
    /\ UNCHANGED <<registry, dictionary, said, voice, readVars, writeVars, left>>

Dismiss ==
    /\ window = "told"
    /\ window' = "ready" /\ said' = [registry |-> "nothing", dictionary |-> TRUE]
    /\ UNCHANGED <<registry, dictionary, controls, found, voice, readVars, writeVars, left>>

-----------------------------------------------------------------------------
(* Writing, one value at a time.                                           *)
SaveOrder == CustomOrder \o GlobalOrder \o <<Logging>>

\* Where a writer ends: /reset leaves the switch for the log alone.  The
\* mutant forgets the settings for every voice.
LastOfCustom(w) == IF w = "save" THEN Len(SaveOrder) ELSE Len(CustomOrder)

LastWrite(w) == IF w = "save" THEN Len(SaveOrder) ELSE Len(SaveOrder) - 1

Written(w, v) ==
    IF w = "reset" THEN Default[v[2]] ELSE Meant(v[2], controls[v[2]])

\* ok &= write_dword(...).  The mutant remembers the last write only.
OkOfLast(ok, worked) == worked

OkAfter(ok, worked) == ok /\ worked

\* save_custom(v) && save_global(g): what is for every voice is not saved
\* when what is for the Custom Voice could not be; /reset does not look.
NextWrite(w, i, ok) ==
    IF w = "save" /\ i = Len(CustomOrder) /\ ~ok THEN Len(SaveOrder) ELSE i + 1

BeginWriting(w) ==
    /\ write[w].at = 0
    /\ write' = [write EXCEPT ![w] = [at |-> 1, ok |-> TRUE]]
    /\ lone' = \A other \in Writers \ {w} : write[other].at = 0
    /\ agreed' = Nothing
    /\ expects' = [r \in Readers |-> Nothing]

\* The result of the write of Logging is not looked at.
WriteNext(w) ==
    /\ write[w].at \in 1..LastWrite(w)
    /\ \E worked \in BOOLEAN :
          LET v == SaveOrder[write[w].at]
              ok == OkAfter(write[w].ok, worked \/ v = Logging)
          IN  /\ registry' = IF worked THEN [registry EXCEPT ![v] = Written(w, v)]
                             ELSE registry
              /\ IF worked \/ v = Logging THEN UNCHANGED left ELSE Spend
              /\ write' = [write EXCEPT ![w] =
                               [at |-> NextWrite(w, @.at, ok), ok |-> ok]]
    /\ UNCHANGED <<dictionary, dialogVars, voice, readVars, agreed, lone>>

DoneWriting(w, numbers) ==
    /\ write[w].at = LastWrite(w) + 1
    /\ write' = [write EXCEPT ![w] = [at |-> 0, ok |-> TRUE]]
    /\ agreed' = IF write[w].ok /\ lone THEN [by |-> w, numbers |-> numbers] ELSE Nothing

Save ==
    /\ window = "ready"
    /\ window' = "saving"
    /\ BeginWriting("save")
    /\ UNCHANGED <<registry, dictionary, controls, said, found, voice, at, got, left>>

\* What each control means, the numbers speak_test renders with among them.
Tested == [c \in Sliders \cup Boxes |-> Meant(c, controls[c])]

\* The switch for the dictionary is written to the ini when it has changed.
Announce ==
    /\ window = "saving"
    /\ DoneWriting("save", Tested)
    /\ \E worked \in BOOLEAN :
          /\ dictionary' = IF worked THEN controls["UserDict"] ELSE dictionary
          /\ worked \/ dictionary # controls["UserDict"]
          /\ said' = [registry |-> IF write["save"].ok THEN "saved" ELSE "failed",
                      dictionary |-> worked]
    /\ window' = "told"
    /\ UNCHANGED <<registry, controls, found, voice, readVars, lone, left>>

BeginReset ==
    /\ Spend
    /\ BeginWriting("reset")
    /\ found' = Nothing
    /\ UNCHANGED <<registry, dictionary, window, controls, said, voice, at, got>>

EndReset ==
    /\ DoneWriting("reset", Nothing)
    /\ UNCHANGED <<registry, dictionary, dialogVars, voice, readVars, lone, left>>

Window ==
    \/ Open \/ ReadNext("window") \/ load_into_dialog
    \/ Move \/ reset_to_defaults \/ (\E id \in Tokens \cap DOMAIN PRESETS : copy_from_preset(id))
    \/ Save \/ WriteNext("save") \/ Announce \/ Dismiss \/ Close

Reset == BeginReset \/ WriteNext("reset") \/ EndReset

Next == Window \/ Reset \/ \E h \in Hosts : Host(h)

Spec == Init /\ [][Next]_vars

-----------------------------------------------------------------------------
\* No number outside the scales reaches the engine or a slider, whatever is
\* in the registry: clamp, and the multipliers' own clamps.
TypeOK ==
    /\ registry \in [Values -> Int \cup {Absent}]
    /\ dictionary \in {0, 1}
    /\ window \in {"closed", "loading", "ready", "saving", "told"}
    /\ controls \in [Sliders \cup Boxes -> 0..100]
    /\ \A c \in Boxes : controls[c] \in {0, 1}
    /\ at \in [Readers -> 0..(Len(SaveOrder) + 1)]
    /\ \A w \in Writers : write[w].at \in 0..(LastWrite(w) + 1)
    /\ voice \in [Hosts -> DOMAIN PRESETS \cup {"custom"}]
    /\ \A h \in Hosts : HasRead(h) =>
          /\ \A name \in Sliders : Spoken(h)[name] \in Least[name]..Most[name]
          /\ \A name \in Range(Switches) : Spoken(h)[name] \in {0, 1}
    /\ lone \in BOOLEAN

\* The message after a save: "They take effect on the next thing any program
\* speaks."  An utterance begun after a save that succeeded is spoken with
\* what the window meant and the test button renders: the Custom Voice with
\* all of it, a preset with its own scales, and with its own pauses unless
\* those are to be overridden.
SpeaksAsSaved ==
    \A h \in Hosts :
        (HasRead(h) /\ expects[h] # Nothing /\ expects[h].by = "save")
        => LET saved == expects[h].numbers
           IN  \A name \in DOMAIN Spoken(h) :
                   Spoken(h)[name] =
                       IF voice[h] = "custom" \/ name \in Multipliers \cup Range(Switches)
                       THEN saved[name]
                       ELSE IF name \in Range(Pauses) /\ saved["OverridePauses"] = 1
                       THEN saved[name]
                       ELSE preset_params(voice[h])[name]

\* /reset "puts everything back": the next utterance of the Custom Voice is
\* spoken as the engine was shipped, and that of a preset as if nothing had
\* ever been set.
ResetSpeaksAsShipped ==
    \A h \in Hosts :
        (HasRead(h) /\ expects[h] # Nothing /\ expects[h].by = "reset")
        => \A name \in DOMAIN Spoken(h) :
               Spoken(h)[name] =
                   IF voice[h] = "custom" \/ name \notin Numbers THEN Default[name]
                   ELSE preset_params(voice[h])[name]

\* While "Settings saved" is on the screen, and nobody else has written,
\* every value of both keys is what the window means, and the dictionary
\* switch too unless the message says otherwise.
SavedMeansSaved ==
    (/\ window = "told" /\ said.registry = "saved"
     /\ agreed # Nothing /\ agreed.by = "save")
    => /\ \A v \in Values \ {Logging} : registry[v] = Meant(v[2], controls[v[2]])
       /\ said.dictionary => dictionary = controls["UserDict"]

\* Opening the window on what was saved and saving again changes nothing:
\* the way from a number to a slider and back comes to the same number.  The
\* switch for the log, whose first write may have failed, is as good as it was.
NoDrift ==
    found # Nothing =>
        /\ \A v \in Values \ {Logging} : registry[v] = found[v]
        /\ Taken("Logging", read_dword(registry, Logging))
               = Taken("Logging", read_dword(found, Logging))

=============================================================================
