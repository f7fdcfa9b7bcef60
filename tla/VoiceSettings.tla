--------------------------- MODULE VoiceSettings ---------------------------
(***************************************************************************)
(* The numbers a voice speaks with: what is kept in the registry under     *)
(* HKCU\Software\AcuVoice SAPI5, what settings.hpp makes of it, the        *)
(* presets, what build_params combines, and the conversions between a      *)
(* number and the position of a 0 to 100 slider.                           *)
(*                                                                         *)
(* A value of the registry is <<key, name>>.  A DWORD is written as the    *)
(* int the code casts it to, so that one above 2^31 is negative; Absent    *)
(* also stands for a value of another type, which read_dword treats alike. *)
(* A switch is 0 or 1.  The host's own rate, pitch and volume are          *)
(* SpeakCall's and neutral here.                                           *)
(***************************************************************************)
EXTENDS Integers, Sequences, Functions

CONSTANTS
    Scales,         \* the voice's scales, a sequence in the order of the code
    Pauses,         \* the pause slots, the same
    Switches,       \* tags and punctuation, the same
    RateOfSlider,   \* percent of the rate at each position: 25 * 4^(s/50)
    SliderOfRate,   \* the position shown for each percent
    Absent

CUSTOM_KEY == "CustomVoice"
GLOBAL_KEY == "Global"
ROOT_KEY == "Root"

Numbers == Range(Scales) \cup Range(Pauses)
Multipliers == {"RatePercent", "VolumePercent"}

\* The values of a key, in the order in which they are read and written.
CustomOrder == [i \in 1..Len(Scales \o Pauses \o Switches) |->
                    <<CUSTOM_KEY, (Scales \o Pauses \o Switches)[i]>>]
GlobalOrder ==
    LET names == <<"RatePercent", "VolumePercent", "OverridePauses">>
                     \o Pauses \o Switches
    IN  [i \in 1..Len(names) |-> <<GLOBAL_KEY, names[i]>>]
Logging == <<ROOT_KEY, "Logging">>
Values == Range(CustomOrder) \cup Range(GlobalOrder) \cup {Logging}

-----------------------------------------------------------------------------
(* The engine's scales, and the multipliers on top of them.                *)
Least == [Speed |-> 85, Pitch |-> 45, Volume |-> 0,
          Pause1 |-> 0, Pause2 |-> 0, Pause3 |-> 0, Pause4 |-> 0,
          RatePercent |-> 25, VolumePercent |-> 0]

Most == [Speed |-> 350, Pitch |-> 91, Volume |-> 65535,
         Pause1 |-> 3000, Pause2 |-> 3000, Pause3 |-> 3000, Pause4 |-> 100,
         RatePercent |-> 400, VolumePercent |-> 200]

Default == [Speed |-> 175, Pitch |-> 63, Volume |-> 32767,
            Pause1 |-> 650, Pause2 |-> 500, Pause3 |-> 350, Pause4 |-> 7,
            HonourTags |-> 0, SpeakPunctuation |-> 0,
            RatePercent |-> 100, VolumePercent |-> 100,
            OverridePauses |-> 0, Logging |-> 1]

ASSUME SettingsAssumption ==
    /\ Scales \in Seq({"Speed", "Pitch", "Volume"})
    /\ Pauses \in Seq({"Pause1", "Pause2", "Pause3", "Pause4"})
    /\ Switches \in Seq({"HonourTags", "SpeakPunctuation"})
    /\ Absent \notin Int
    /\ RateOfSlider \in [0..100 -> 25..400] /\ RateOfSlider[50] = 100
    /\ SliderOfRate \in [25..400 -> 0..100]
    /\ \A s \in 0..100 :
           RateOfSlider[SliderOfRate[RateOfSlider[s]]] = RateOfSlider[s]

clamp(i, least, most) == IF i < least THEN least ELSE IF i > most THEN most ELSE i

\* A mutant of Taken: a number above its range is cut, one below is not.
TakenBelow(name, i) ==
    IF name \in Numbers \cup Multipliers THEN IF i > Most[name] THEN Most[name] ELSE i
    ELSE IF i # 0 THEN 1 ELSE 0

\* What is made of the int that was read.
Taken(name, i) ==
    IF name \in Numbers \cup Multipliers THEN clamp(i, Least[name], Most[name])
    ELSE IF i # 0 THEN 1 ELSE 0

read_dword(registry, v) == IF registry[v] = Absent THEN Default[v[2]] ELSE registry[v]

\* What reading a whole key gives, from what each value was read as.
Loaded(key, read) ==
    [name \in {v[2] : v \in {w \in Values : w[1] = key}} |->
        Taken(name, read[<<key, name>>])]

PRESETS ==
    [roger     |-> [Speed |-> 175, Pitch |-> 63, Volume |-> 32767, pause_scale |-> 100],
     deep      |-> [Speed |-> 160, Pitch |-> 50, Volume |-> 32767, pause_scale |-> 110],
     bright    |-> [Speed |-> 180, Pitch |-> 78, Volume |-> 32767, pause_scale |-> 100],
     brisk     |-> [Speed |-> 260, Pitch |-> 65, Volume |-> 32767, pause_scale |-> 70],
     measured  |-> [Speed |-> 120, Pitch |-> 60, Volume |-> 32767, pause_scale |-> 140],
     announcer |-> [Speed |-> 165, Pitch |-> 57, Volume |-> 46000, pause_scale |-> 120],
     clipped   |-> [Speed |-> 300, Pitch |-> 66, Volume |-> 32767, pause_scale |-> 25]]

preset_params(id) ==
    [name \in Numbers \cup Range(Switches) |->
        IF name \in Range(Scales) THEN PRESETS[id][name]
        ELSE IF name \in Range(Pauses)
             THEN clamp((Default[name] * PRESETS[id].pause_scale) \div 100, 0, Most[name])
             ELSE 0]

\* A mutant of build_params: the pauses are chosen the wrong way round.
build_params_swapped(voice, user) ==
    [name \in Numbers \cup Range(Switches) \cup Multipliers |->
        IF name \in Multipliers THEN user[name]
        ELSE IF name \in Range(Scales) THEN voice[name]
        ELSE IF name \in Range(Pauses)
             THEN IF user["OverridePauses"] = 1 THEN voice[name] ELSE user[name]
             ELSE IF voice[name] = 1 \/ user[name] = 1 THEN 1 ELSE 0]

\* The voice's parameters with the user's multipliers, pauses and switches
\* for every voice on top.
build_params(voice, user) ==
    [name \in Numbers \cup Range(Switches) \cup Multipliers |->
        IF name \in Multipliers THEN user[name]
        ELSE IF name \in Range(Scales) THEN voice[name]
        ELSE IF name \in Range(Pauses)
             THEN IF user["OverridePauses"] = 1 THEN user[name] ELSE voice[name]
             ELSE IF voice[name] = 1 \/ user[name] = 1 THEN 1 ELSE 0]

-----------------------------------------------------------------------------
(* The sliders.  lround of a quotient that is not negative.                *)
lround(a, b) == (2 * a + b) \div (2 * b)

percent_to_range(percent, least, most) == least + lround((most - least) * percent, 100)

range_to_percent(i, least, most) ==
    lround((clamp(i, least, most) - least) * 100, most - least)

\* A mutant of Shown: the quotient is cut off where the code rounds it.
ShownCut(name, i) ==
    IF name \in Numbers
    THEN ((clamp(i, Least[name], Most[name]) - Least[name]) * 100)
             \div (Most[name] - Least[name])
    ELSE IF name = "RatePercent" THEN SliderOfRate[clamp(i, 25, 400)]
    ELSE IF name = "VolumePercent" THEN clamp(i, 0, 200) \div 2
    ELSE i

\* The position that shows a number, and the number a position means.
Shown(name, i) ==
    IF name \in Numbers THEN range_to_percent(i, Least[name], Most[name])
    ELSE IF name = "RatePercent" THEN SliderOfRate[clamp(i, 25, 400)]
    ELSE IF name = "VolumePercent" THEN clamp(i, 0, 200) \div 2
    ELSE i

Meant(name, position) ==
    IF name \in Numbers THEN percent_to_range(position, Least[name], Most[name])
    ELSE IF name = "RatePercent" THEN RateOfSlider[position]
    ELSE IF name = "VolumePercent" THEN position * 2
    ELSE position

=============================================================================
