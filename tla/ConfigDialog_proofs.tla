------------------------ MODULE ConfigDialog_proofs ------------------------
(***************************************************************************)
(* Three things about the configuration utility and the voices it sets up. *)
(*                                                                         *)
(* The sliders: what is saved from a position and shown again is saved     *)
(* again as the same number.  A scale of more than a hundred steps has a   *)
(* number for each position and comes back to the position itself; one of  *)
(* fewer steps has several positions for a number, and comes back to one   *)
(* of these.                                                               *)
(*                                                                         *)
(* The scales: whatever is in the registry, the engine is given numbers    *)
(* that are on its scales.                                                 *)
(*                                                                         *)
(* The dialog: what a save and a reset promise to those who read and speak *)
(* afterwards, by the inductive invariant DialogInv, which says how far a  *)
(* writer is, what a reader has read so far and what was agreed then.      *)
(***************************************************************************)
EXTENDS ConfigDialog, TLAPS

\* The way from a number of a scale of `steps` steps to a position and back.
There(steps, position) == (2 * (steps * position) + 100) \div 200
Back(steps, number) == (2 * (number * 100) + steps) \div (2 * steps)

InScale(steps, n) == n \in Nat /\ n <= steps

\* What a whole quotient is.
LEMMA Quotient ==
    ASSUME NEW x \in Int, NEW d \in Nat \ {0}, NEW q \in Int, d * q <= x, x < d * q + d
    PROVE  x \div d = q
OBVIOUS

LEMMA SpeedSettles ==
    ASSUME NEW p \in 0..100
    PROVE  InScale(265, There(265, p)) /\ Back(265, There(265, p)) = p
BY DEF There, Back, InScale

LEMMA PitchSettles ==
    ASSUME NEW p \in 0..100
    PROVE  InScale(46, There(46, p)) /\ There(46, Back(46, There(46, p))) = There(46, p)
BY DEF There, Back, InScale

LEMMA PitchShown == ASSUME NEW n, InScale(46, n) PROVE Back(46, n) \in 0..100
BY DEF Back, InScale

LEMMA VolumeSettles ==
    ASSUME NEW p \in 0..100
    PROVE  InScale(65535, There(65535, p)) /\ Back(65535, There(65535, p)) = p
<1> DEFINE n == There(65535, p)
<1>1. n \in Int /\ 200 * n <= 131070 * p + 100 /\ 131070 * p + 100 < 200 * n + 200
  BY DEF There
<1>2. 0 <= p /\ p <= 100 /\ p \in Int
  OBVIOUS
<1> HIDE DEF n
<1>3. InScale(65535, n)
  BY <1>1, <1>2 DEF InScale
<1>4. 131070 * p <= 200 * n + 65535 /\ 200 * n + 65535 < 131070 * p + 131070
  BY <1>1, <1>2
<1>5. (200 * n + 65535) \div 131070 = p
  BY <1>1, <1>2, <1>4, Quotient
<1>6. Back(65535, n) = (200 * n + 65535) \div 131070
  BY <1>1 DEF Back
<1> QED
  BY <1>3, <1>5, <1>6 DEF n

LEMMA PauseSettles ==
    ASSUME NEW p \in 0..100
    PROVE  InScale(3000, There(3000, p)) /\ Back(3000, There(3000, p)) = p
BY DEF There, Back, InScale

LEMMA LastPauseSettles ==
    ASSUME NEW p \in 0..100
    PROVE  InScale(100, There(100, p)) /\ Back(100, There(100, p)) = p
BY DEF There, Back, InScale

\* What a position means and what is shown, in these terms.
LEMMA MeantIsThere ==
    ASSUME NEW least \in Int, NEW steps \in Nat \ {0}, NEW p \in 0..100
    PROVE  percent_to_range(p, least, least + steps) = least + There(steps, p)
BY DEF percent_to_range, lround, There

LEMMA ShownIsBack ==
    ASSUME NEW least \in Int, NEW steps \in Nat \ {0}, NEW n, InScale(steps, n)
    PROVE  range_to_percent(least + n, least, least + steps) = Back(steps, n)
BY DEF range_to_percent, lround, clamp, Back, InScale

LEMMA SequenceOf ==
    ASSUME NEW S, NEW s \in Seq(S)
    PROVE  /\ Len(s) \in Nat /\ DOMAIN s = 1..Len(s)
           /\ Range(s) = {s[i] : i \in 1..Len(s)} /\ Range(s) \subseteq S
BY DEF Range

LEMMA NamesOfNumbers ==
    ASSUME NEW name \in Numbers
    PROVE  name \in {"Speed", "Pitch", "Volume", "Pause1", "Pause2", "Pause3", "Pause4"}
<1>1. /\ Range(Scales) \subseteq {"Speed", "Pitch", "Volume"}
      /\ Range(Pauses) \subseteq {"Pause1", "Pause2", "Pause3", "Pause4"}
  BY SettingsAssumption, SequenceOf
<1> QED
  BY <1>1 DEF Numbers

\* What is saved from a position of a slider and shown again is saved again
\* as the same number: percent_to_range undoes range_to_percent of every
\* number a position means, on every scale, and so do the two multipliers.
THEOREM SlidersSettle ==
    ASSUME NEW name \in Numbers \cup Multipliers, NEW p \in 0..100
    PROVE  Meant(name, Shown(name, Meant(name, p))) = Meant(name, p)
<1>1. CASE name \in Numbers
  <2> DEFINE least == Least[name]
             steps == Most[name] - Least[name]
  <2>1. /\ least \in Int /\ steps \in Nat \ {0} /\ Most[name] = least + steps
        /\ InScale(steps, There(steps, p))
        /\ Back(steps, There(steps, p)) \in 0..100
        /\ There(steps, Back(steps, There(steps, p))) = There(steps, p)
    <3>1. CASE name = "Speed"
      <4>1. least = 85 /\ steps = 265 /\ Most[name] = 350
        BY <3>1 DEF Least, Most
      <4> QED
        BY <4>1, SpeedSettles
    <3>2. CASE name = "Pitch"
      <4>1. least = 45 /\ steps = 46 /\ Most[name] = 91
        BY <3>2 DEF Least, Most
      <4>2. Back(46, There(46, p)) \in 0..100
        BY PitchSettles, PitchShown
      <4> QED
        BY <4>1, <4>2, PitchSettles
    <3>3. CASE name = "Volume"
      <4>1. least = 0 /\ steps = 65535 /\ Most[name] = 65535
        BY <3>3 DEF Least, Most
      <4> QED
        BY <4>1, VolumeSettles
    <3>4. CASE name \in {"Pause1", "Pause2", "Pause3"}
      <4>1. least = 0 /\ steps = 3000 /\ Most[name] = 3000
        BY <3>4 DEF Least, Most
      <4> QED
        BY <4>1, PauseSettles
    <3>5. CASE name = "Pause4"
      <4>1. least = 0 /\ steps = 100 /\ Most[name] = 100
        BY <3>5 DEF Least, Most
      <4> QED
        BY <4>1, LastPauseSettles
    <3> QED
      BY <1>1, <3>1, <3>2, <3>3, <3>4, <3>5, NamesOfNumbers
  <2>2. /\ \A q \in 0..100 : Meant(name, q) = percent_to_range(q, least, least + steps)
        /\ \A i \in Int : Shown(name, i) = range_to_percent(i, least, least + steps)
    BY <1>1, <2>1 DEF Meant, Shown
  <2> HIDE DEF least, steps
  <2>3. percent_to_range(p, least, least + steps) = least + There(steps, p)
    BY <2>1, MeantIsThere
  <2>4. range_to_percent(least + There(steps, p), least, least + steps)
            = Back(steps, There(steps, p))
    BY <2>1, ShownIsBack
  <2>5. least + There(steps, p) \in Int
    BY <2>1 DEF InScale
  <2>6. percent_to_range(Back(steps, There(steps, p)), least, least + steps)
            = least + There(steps, p)
    BY <2>1, MeantIsThere
  <2> QED
    BY <2>1, <2>2, <2>3, <2>4, <2>5, <2>6
<1>2. CASE name = "RatePercent"
  <2>1. name \notin Numbers
    BY <1>2, NamesOfNumbers
  <2>2. RateOfSlider[p] \in 25..400
    <3>1. RateOfSlider \in [0..100 -> 25..400]
      BY SettingsAssumption, Zenon
    <3> DEFINE positions == 0..100
               rates == 25..400
    <3>2. RateOfSlider \in [positions -> rates] /\ p \in positions
      BY <3>1
    <3> HIDE DEF positions, rates
    <3>3. RateOfSlider[p] \in rates
      BY <3>2
    <3> QED
      BY <3>3 DEF rates
  <2>3. clamp(RateOfSlider[p], 25, 400) = RateOfSlider[p]
    BY <2>2 DEF clamp
  <2>4. RateOfSlider[SliderOfRate[RateOfSlider[p]]] = RateOfSlider[p]
    BY SettingsAssumption
  <2> QED
    BY <1>2, <2>1, <2>3, <2>4 DEF Meant, Shown
<1>3. CASE name = "VolumePercent"
  <2>1. name \notin Numbers
    BY <1>3, NamesOfNumbers
  <2>2. clamp(p * 2, 0, 200) = p * 2 /\ (p * 2) \div 2 = p
    BY DEF clamp
  <2> QED
    BY <1>3, <2>1, <2>2 DEF Meant, Shown
<1> QED
  BY <1>1, <1>2, <1>3 DEF Multipliers

-----------------------------------------------------------------------------
(* What reaches the engine.                                                *)

InLimits(name, i) == i \in Int /\ Least[name] <= i /\ i <= Most[name]

LEMMA LimitsAreOrdered ==
    ASSUME NEW name \in Numbers \cup Multipliers
    PROVE  Least[name] \in Int /\ Most[name] \in Int /\ Least[name] <= Most[name]
BY NamesOfNumbers DEF Least, Most, Multipliers

LEMMA TakenInLimits ==
    ASSUME NEW name \in Numbers \cup Multipliers, NEW i \in Int
    PROVE  InLimits(name, Taken(name, i))
BY LimitsAreOrdered DEF Taken, clamp, InLimits

LEMMA RangeOfConcat ==
    ASSUME NEW S, NEW s \in Seq(S), NEW t \in Seq(S)
    PROVE  s \o t \in Seq(S) /\ Range(s \o t) = Range(s) \cup Range(t)
<1>1. s \o t \in Seq(S) /\ Len(s \o t) = Len(s) + Len(t)
  OBVIOUS
<1>2. ASSUME NEW i \in 1..Len(s) PROVE s[i] = (s \o t)[i] /\ i \in 1..Len(s \o t)
  BY <1>1
<1>3. ASSUME NEW i \in 1..Len(t)
      PROVE  t[i] = (s \o t)[Len(s) + i] /\ Len(s) + i \in 1..Len(s \o t)
  BY <1>1
<1>4. ASSUME NEW i \in 1..Len(s \o t)
      PROVE  (s \o t)[i] \in Range(s) \cup Range(t)
  <2>1. CASE i <= Len(s)
    BY <2>1, SequenceOf
  <2>2. CASE i > Len(s)
    <3>1. i - Len(s) \in 1..Len(t) /\ (s \o t)[i] = t[i - Len(s)]
      BY <1>1, <2>2
    <3> QED
      BY <3>1, SequenceOf
  <2> QED
    BY <2>1, <2>2
<1>5. /\ Range(s) = {s[i] : i \in 1..Len(s)} /\ Range(t) = {t[i] : i \in 1..Len(t)}
      /\ Range(s \o t) = {(s \o t)[i] : i \in 1..Len(s \o t)}
  BY <1>1, SequenceOf
<1> QED
  BY <1>1, <1>2, <1>3, <1>4, <1>5

Names ==
    {"Speed", "Pitch", "Volume", "Pause1", "Pause2", "Pause3", "Pause4", "HonourTags",
     "SpeakPunctuation", "RatePercent", "VolumePercent", "OverridePauses"}

LEMMA LargerSeq ==
    ASSUME NEW A, NEW B, A \subseteq B, NEW s \in Seq(A)
    PROVE  s \in Seq(B)
<1>1. s \in [1..Len(s) -> B] /\ Len(s) \in Nat
  OBVIOUS
<1> QED
  BY <1>1

\* What there is under each key.
OwnNames == Numbers \cup Range(Switches)
SharedNames == Multipliers \cup {"OverridePauses"} \cup Range(Pauses) \cup Range(Switches)

LEMMA OrdersAreComplete ==
    /\ Range(CustomOrder) = {<<CUSTOM_KEY, name>> : name \in OwnNames}
    /\ Range(GlobalOrder) = {<<GLOBAL_KEY, name>> : name \in SharedNames}
    /\ CustomOrder = [i \in 1..Len(CustomOrder) |-> CustomOrder[i]]
    /\ GlobalOrder = [i \in 1..Len(GlobalOrder) |-> GlobalOrder[i]]
    /\ Len(CustomOrder) \in Nat /\ Len(GlobalOrder) \in Nat
<1> DEFINE more == <<"RatePercent", "VolumePercent", "OverridePauses">>
           own == Scales \o Pauses \o Switches
           all == more \o Pauses \o Switches
<1>1. Scales \in Seq(Names) /\ Pauses \in Seq(Names) /\ Switches \in Seq(Names)
  <2>1. /\ {"Speed", "Pitch", "Volume"} \subseteq Names
        /\ {"Pause1", "Pause2", "Pause3", "Pause4"} \subseteq Names
        /\ {"HonourTags", "SpeakPunctuation"} \subseteq Names
    BY DEF Names
  <2>2. /\ Scales \in Seq({"Speed", "Pitch", "Volume"})
        /\ Pauses \in Seq({"Pause1", "Pause2", "Pause3", "Pause4"})
        /\ Switches \in Seq({"HonourTags", "SpeakPunctuation"})
    BY SettingsAssumption, Zenon
  <2>3. Scales \in Seq(Names)
    BY <2>1, <2>2, LargerSeq, Zenon
  <2>4. Pauses \in Seq(Names)
    BY <2>1, <2>2, LargerSeq, Zenon
  <2>5. Switches \in Seq(Names)
    BY <2>1, <2>2, LargerSeq, Zenon
  <2> QED
    BY <2>3, <2>4, <2>5
<1>2. more \in Seq(Names) /\ Range(more) = Multipliers \cup {"OverridePauses"}
  <2>1. more \in Seq(Names)
    BY DEF Names
  <2>2. /\ more[1] = "RatePercent" /\ more[2] = "VolumePercent"
        /\ more[3] = "OverridePauses" /\ DOMAIN more = 1..3
    OBVIOUS
  <2> HIDE DEF more
  <2>3. Range(more) = {more[1], more[2], more[3]}
    BY <2>2 DEF Range
  <2> QED
    BY <2>1, <2>2, <2>3 DEF Multipliers
<1>3. own \in Seq(Names) /\ Range(own) = OwnNames
  <2>1. /\ Scales \o Pauses \in Seq(Names)
        /\ Range(Scales \o Pauses) = Numbers
    BY <1>1, RangeOfConcat DEF Numbers
  <2>2. own \in Seq(Names) /\ Range(own) = Range(Scales \o Pauses) \cup Range(Switches)
    BY <1>1, <2>1, RangeOfConcat, Zenon
  <2> QED
    BY <2>1, <2>2 DEF OwnNames
<1>4. all \in Seq(Names) /\ Range(all) = SharedNames
  <2> HIDE DEF more
  <2>1. /\ more \o Pauses \in Seq(Names)
        /\ Range(more \o Pauses) = Range(more) \cup Range(Pauses)
    BY <1>1, <1>2, RangeOfConcat, Zenon
  <2> DEFINE front == more \o Pauses
  <2>2. front \in Seq(Names) /\ Range(front) = Range(more) \cup Range(Pauses)
    BY <2>1
  <2>3. all = front \o Switches
    OBVIOUS
  <2> HIDE DEF front, all
  <2>4. /\ front \o Switches \in Seq(Names)
        /\ Range(front \o Switches) = Range(front) \cup Range(Switches)
    BY <1>1, <2>2, RangeOfConcat
  <2> QED
    BY <1>2, <2>2, <2>3, <2>4 DEF SharedNames
<1>5. /\ Range(CustomOrder) = {<<CUSTOM_KEY, name>> : name \in Range(own)}
      /\ CustomOrder \in [1..Len(own) -> {<<CUSTOM_KEY, name>> : name \in Range(own)}]
      /\ Len(own) \in Nat
  <2>1. Range(own) = {own[i] : i \in 1..Len(own)} /\ Len(own) \in Nat
    BY <1>3, SequenceOf
  <2>2. CustomOrder = [i \in 1..Len(own) |-> <<CUSTOM_KEY, own[i]>>]
    BY DEF CustomOrder
  <2> HIDE DEF own
  <2> QED
    BY <2>1, <2>2 DEF Range
<1>6. /\ Range(GlobalOrder) = {<<GLOBAL_KEY, name>> : name \in Range(all)}
      /\ GlobalOrder \in [1..Len(all) -> {<<GLOBAL_KEY, name>> : name \in Range(all)}]
      /\ Len(all) \in Nat
  <2>1. GlobalOrder = [i \in 1..Len(all) |-> <<GLOBAL_KEY, all[i]>>]
    BY DEF GlobalOrder
  <2> HIDE DEF all
  <2>2. Range(all) = {all[i] : i \in 1..Len(all)} /\ Len(all) \in Nat
    BY <1>4, SequenceOf
  <2> QED
    BY <2>1, <2>2 DEF Range
<1> HIDE DEF own, all, more
<1>7. Len(CustomOrder) = Len(own) /\ Len(GlobalOrder) = Len(all)
  BY <1>5, <1>6
<1> QED
  BY <1>3, <1>4, <1>5, <1>6, <1>7

\* Both keys hold what is looked for in them.
LEMMA KeysAreComplete ==
    /\ \A name \in OwnNames : <<CUSTOM_KEY, name>> \in Values
    /\ \A name \in SharedNames : <<GLOBAL_KEY, name>> \in Values
BY OrdersAreComplete DEF Values

LEMMA LoadedIsTaken ==
    ASSUME NEW key, NEW read, NEW name, <<key, name>> \in Values
    PROVE  Loaded(key, read)[name] = Taken(name, read[<<key, name>>])
BY DEF Loaded

LEMMA PresetInLimits ==
    ASSUME NEW id \in DOMAIN PRESETS, NEW name \in Numbers
    PROVE  InLimits(name, preset_params(id)[name])
<1>1. CASE name \in Range(Scales)
  <2>1. name \in {"Speed", "Pitch", "Volume"}
    BY <1>1, SettingsAssumption, SequenceOf
  <2>2. preset_params(id)[name] = PRESETS[id][name]
    BY <1>1 DEF preset_params
  <2> QED
    BY <2>1, <2>2 DEF PRESETS, InLimits, Least, Most
<1>2. CASE name \notin Range(Scales)
  <2>1. name \in Range(Pauses) /\ name \in {"Pause1", "Pause2", "Pause3", "Pause4"}
    BY <1>2, SettingsAssumption, SequenceOf DEF Numbers
  <2> DEFINE i == (Default[name] * PRESETS[id].pause_scale) \div 100
  <2>2. preset_params(id)[name] = clamp(i, 0, Most[name])
    BY <1>2, <2>1 DEF preset_params
  <2>3. PRESETS[id].pause_scale \in Int
    BY DEF PRESETS
  <2>4. i \in Int
    <3>1. Default[name] \in Int
      BY <2>1 DEF Default
    <3> QED
      BY <2>3, <3>1
  <2>5. Least[name] = 0
    BY <2>1 DEF Least
  <2> HIDE DEF i
  <2> QED
    BY <2>2, <2>4, <2>5, LimitsAreOrdered DEF clamp, InLimits
<1> QED
  BY <1>1, <1>2

\* Whatever integers are in the registry, above 2^31 or negative, and
\* whichever voice speaks, every number the engine and the audio path are
\* given is on its scale.
THEOREM NumbersStayOnScale ==
    ASSUME NEW read \in [Values -> Int],
           NEW id \in DOMAIN PRESETS \cup {"custom"},
           NEW name \in Numbers \cup Multipliers
    PROVE  LET speaks == IF id = "custom" THEN Loaded(CUSTOM_KEY, read) ELSE preset_params(id)
           IN  InLimits(name, build_params(speaks, Loaded(GLOBAL_KEY, read))[name])
<1> DEFINE speaks == IF id = "custom" THEN Loaded(CUSTOM_KEY, read) ELSE preset_params(id)
           user == Loaded(GLOBAL_KEY, read)
<1>1. \A n \in Multipliers \cup Range(Pauses) : InLimits(n, user[n])
  <2> SUFFICES ASSUME NEW n \in Multipliers \cup Range(Pauses) PROVE InLimits(n, user[n])
    OBVIOUS
  <2>1. <<GLOBAL_KEY, n>> \in Values
    BY KeysAreComplete DEF SharedNames
  <2> QED
    BY <2>1, LoadedIsTaken, TakenInLimits DEF Numbers
<1>2. \A n \in Numbers : InLimits(n, speaks[n])
  <2> SUFFICES ASSUME NEW n \in Numbers PROVE InLimits(n, speaks[n])
    OBVIOUS
  <2>1. CASE id = "custom"
    <3>1. <<CUSTOM_KEY, n>> \in Values
      BY KeysAreComplete DEF OwnNames
    <3> QED
      BY <2>1, <3>1, LoadedIsTaken, TakenInLimits
  <2>2. CASE id # "custom"
    BY <2>2, PresetInLimits
  <2> QED
    BY <2>1, <2>2
<1> HIDE DEF speaks, user
<1>3. /\ build_params(speaks, user)[name] \in {user[name], speaks[name]}
      /\ name \in Multipliers => build_params(speaks, user)[name] = user[name]
  BY DEF build_params, Numbers
<1>4. name \in Range(Scales) /\ name \notin Multipliers
         => build_params(speaks, user)[name] = speaks[name]
  BY DEF build_params, Numbers
<1>5. InLimits(name, build_params(speaks, user)[name])
  BY <1>1, <1>2, <1>3, <1>4 DEF Numbers
<1> QED
  BY <1>5 DEF speaks, user

-----------------------------------------------------------------------------
(* The values, their names and the orders they are gone through in.        *)

LEMMA NamesOfSwitches ==
    Range(Switches) \subseteq {"HonourTags", "SpeakPunctuation"}
BY SettingsAssumption, SequenceOf

\* What a value other than that of the log is called.
LEMMA NamesOfValues ==
    ASSUME NEW v \in Values \ {Logging}
    PROVE  /\ \/ v[2] \in OwnNames /\ v = <<CUSTOM_KEY, v[2]>>
              \/ v[2] \in SharedNames /\ v = <<GLOBAL_KEY, v[2]>>
           /\ v[2] \in Sliders \cup Boxes
<1>1. \/ \E name \in OwnNames : v = <<CUSTOM_KEY, name>>
      \/ \E name \in SharedNames : v = <<GLOBAL_KEY, name>>
  BY OrdersAreComplete DEF Values
<1>2. OwnNames \cup SharedNames \subseteq Sliders \cup Boxes
  BY DEF OwnNames, SharedNames, Sliders, Boxes, Numbers
<1> QED
  BY <1>1, <1>2

LEMMA LoggingIsApart ==
    /\ Logging \in Values /\ Logging[2] = "Logging" /\ "Logging" \in Boxes
    /\ \A name : <<CUSTOM_KEY, name>> # Logging /\ <<GLOBAL_KEY, name>> # Logging
BY DEF Logging, Values, Boxes, CUSTOM_KEY, GLOBAL_KEY, ROOT_KEY

LEMMA NamesAreApart ==
    /\ Range(Scales) \cap Range(Pauses) = {}
    /\ (Range(Scales) \cup Range(Pauses)) \cap Multipliers = {}
    /\ Range(Switches) \cap (Range(Scales) \cup Range(Pauses) \cup Multipliers) = {}
<1>1. /\ Range(Scales) \subseteq {"Speed", "Pitch", "Volume"}
      /\ Range(Pauses) \subseteq {"Pause1", "Pause2", "Pause3", "Pause4"}
  BY SettingsAssumption, SequenceOf
<1> QED
  BY <1>1, NamesOfSwitches DEF Multipliers

LEMMA BoxesAreNoSliders == Boxes \cap Sliders = {}
BY NamesOfNumbers, NamesOfSwitches DEF Boxes, Sliders, Multipliers

LEMMA DefaultsAreNumbers ==
    ASSUME NEW v \in Values
    PROVE  Default[v[2]] \in Int
<1>1. v[2] \in Numbers \cup Multipliers \cup Range(Switches)
                  \cup {"OverridePauses", "Logging"}
  BY NamesOfValues, LoggingIsApart DEF OwnNames, SharedNames, Numbers
<1>2. v[2] \in Names \cup {"Logging"}
  BY <1>1, NamesOfNumbers, NamesOfSwitches DEF Multipliers, Names
<1> QED
  BY <1>2 DEF Default, Names

LEMMA ReadGivesNumbers ==
    ASSUME NEW reg \in [Values -> Int \cup {Absent}], NEW v \in Values
    PROVE  /\ read_dword(reg, v) \in Int
           /\ reg[v] \in Int => read_dword(reg, v) = reg[v]
<1>1. Absent \notin Int
  BY SettingsAssumption
<1> QED
  BY <1>1, DefaultsAreNumbers DEF read_dword

\* A concatenation, element by element.
LEMMA Concat ==
    ASSUME NEW S, NEW s \in Seq(S), NEW t \in Seq(S)
    PROVE  /\ s \o t \in Seq(S) /\ Len(s \o t) = Len(s) + Len(t)
           /\ \A i \in 1..Len(s) : (s \o t)[i] = s[i]
           /\ \A i \in 1..Len(t) : (s \o t)[Len(s) + i] = t[i]
OBVIOUS

Covers(s, n, V) == \A v \in V : \E i \in 1..n : s[i] = v

LEMMA OrdersAreSequences ==
    /\ CustomOrder \in Seq(Values)
    /\ Covers(CustomOrder, Len(CustomOrder), {<<CUSTOM_KEY, name>> : name \in OwnNames})
    /\ GlobalOrder \in Seq(Values)
    /\ Covers(GlobalOrder, Len(GlobalOrder), {<<GLOBAL_KEY, name>> : name \in SharedNames})
    /\ <<Logging>> \in Seq(Values)
<1>1. /\ Range(CustomOrder) = {CustomOrder[i] : i \in 1..Len(CustomOrder)}
      /\ Range(GlobalOrder) = {GlobalOrder[i] : i \in 1..Len(GlobalOrder)}
  BY OrdersAreComplete DEF Range
<1>2. Range(CustomOrder) \subseteq Values /\ Range(GlobalOrder) \subseteq Values
  BY DEF Values
<1>3. \A s : Len(s) \in Nat /\ s = [i \in 1..Len(s) |-> s[i]]
             /\ (\A i \in 1..Len(s) : s[i] \in Values) => s \in Seq(Values)
  <2> SUFFICES ASSUME NEW s, Len(s) \in Nat, s = [i \in 1..Len(s) |-> s[i]],
                      \A i \in 1..Len(s) : s[i] \in Values
               PROVE  s \in Seq(Values)
    OBVIOUS
  <2>1. s \in [1..Len(s) -> Values]
    OBVIOUS
  <2> QED
    BY <2>1
<1> QED
  BY <1>1, <1>2, <1>3, OrdersAreComplete, LoggingIsApart DEF Covers

LEMMA SaveOrderIsComplete ==
    /\ SaveOrder \in Seq(Values) /\ Len(SaveOrder) \in Nat \ {0}
    /\ Len(CustomOrder) \in 0..(Len(SaveOrder) - 1)
    /\ SaveOrder[Len(SaveOrder)] = Logging
    /\ Covers(SaveOrder, Len(SaveOrder) - 1, Values \ {Logging})
<1> DEFINE front == CustomOrder \o GlobalOrder
           c == Len(CustomOrder)
           g == Len(GlobalOrder)
<1>1. /\ front \in Seq(Values) /\ Len(front) = c + g
      /\ \A i \in 1..c : front[i] = CustomOrder[i]
      /\ \A i \in 1..g : front[c + i] = GlobalOrder[i]
  BY OrdersAreSequences, Concat
<1>2. c \in Nat /\ g \in Nat
  BY OrdersAreComplete
<1>3. /\ SaveOrder \in Seq(Values) /\ Len(SaveOrder) = c + g + 1
      /\ \A i \in 1..(c + g) : SaveOrder[i] = front[i]
      /\ SaveOrder[c + g + 1] = Logging
  <2>1. SaveOrder = front \o <<Logging>>
    BY DEF SaveOrder
  <2> HIDE DEF front, c, g
  <2> QED
    BY <1>1, <1>2, <2>1, OrdersAreSequences, Concat
<1> HIDE DEF front, c, g
<1>4. ASSUME NEW v \in Values \ {Logging}
      PROVE  \E i \in 1..(c + g) : SaveOrder[i] = v
  <2>1. CASE v \in {<<CUSTOM_KEY, name>> : name \in OwnNames}
    <3>1. PICK i \in 1..c : CustomOrder[i] = v
      BY <2>1, OrdersAreSequences DEF Covers, c
    <3> QED
      BY <3>1, <1>1, <1>2, <1>3
  <2>2. CASE v \in {<<GLOBAL_KEY, name>> : name \in SharedNames}
    <3>1. PICK i \in 1..g : GlobalOrder[i] = v
      BY <2>2, OrdersAreSequences DEF Covers, g
    <3>2. c + i \in 1..(c + g) /\ SaveOrder[c + i] = v
      BY <3>1, <1>1, <1>2, <1>3
    <3> QED
      BY <3>2
  <2> QED
    BY <2>1, <2>2, NamesOfValues
<1> QED
  BY <1>2, <1>3, <1>4 DEF Covers, c

\* What each reader reads: the window everything, the Custom Voice all that
\* voices read, and a preset what is for every voice.
LEMMA ReadOrderIsComplete ==
    ASSUME NEW r
    PROVE  /\ ReadOrder(r) \in Seq(Values)
           /\ Len(ReadOrder(r)) \in 0..Len(SaveOrder)
           /\ r = "window" => Covers(ReadOrder(r), Len(ReadOrder(r)), Values)
           /\ (r # "window" /\ voice[r] = "custom")
                 => Covers(ReadOrder(r), Len(ReadOrder(r)), Values \ {Logging})
           /\ Covers(ReadOrder(r), Len(ReadOrder(r)),
                     {<<GLOBAL_KEY, name>> : name \in SharedNames})
<1> DEFINE own == {<<CUSTOM_KEY, name>> : name \in OwnNames}
           shared == {<<GLOBAL_KEY, name>> : name \in SharedNames}
           c == Len(CustomOrder)
           g == Len(GlobalOrder)
<1>1. c \in Nat /\ g \in Nat /\ Len(SaveOrder) = c + g + 1
  <2>1. Len(CustomOrder \o GlobalOrder) = c + g /\ CustomOrder \o GlobalOrder \in Seq(Values)
    BY OrdersAreSequences, Concat
  <2> QED
    BY <2>1, OrdersAreComplete, OrdersAreSequences, Concat DEF SaveOrder
<1>2. Values \ {Logging} \subseteq own \cup shared /\ shared \subseteq Values \ {Logging}
  BY NamesOfValues, KeysAreComplete, LoggingIsApart
<1>3. CASE r = "window"
  <2>1. ReadOrder(r) = SaveOrder
    BY <1>3 DEF ReadOrder, SaveOrder
  <2>2. Covers(SaveOrder, Len(SaveOrder), Values)
    BY SaveOrderIsComplete DEF Covers
  <2> QED
    BY <1>2, <1>3, <2>1, <2>2, SaveOrderIsComplete DEF Covers
<1>4. CASE r # "window" /\ voice[r] = "custom"
  <2>1. ReadOrder(r) = GlobalOrder \o CustomOrder
    BY <1>4 DEF ReadOrder
  <2>2. /\ ReadOrder(r) \in Seq(Values) /\ Len(ReadOrder(r)) = g + c
        /\ \A i \in 1..g : ReadOrder(r)[i] = GlobalOrder[i]
        /\ \A i \in 1..c : ReadOrder(r)[g + i] = CustomOrder[i]
    BY <2>1, OrdersAreSequences, Concat
  <2> HIDE DEF g, c
  <2>3. Covers(ReadOrder(r), g + c, own \cup shared)
    <3> SUFFICES ASSUME NEW v \in own \cup shared
                 PROVE  \E i \in 1..(g + c) : ReadOrder(r)[i] = v
      BY DEF Covers
    <3>1. CASE v \in own
      <4>1. PICK i \in 1..c : CustomOrder[i] = v
        BY <3>1, OrdersAreSequences DEF Covers, c
      <4>2. g + i \in 1..(g + c) /\ ReadOrder(r)[g + i] = v
        BY <4>1, <2>2, <1>1
      <4> QED
        BY <4>2
    <3>2. CASE v \in shared
      <4>1. PICK i \in 1..g : GlobalOrder[i] = v
        BY <3>2, OrdersAreSequences DEF Covers, g
      <4> QED
        BY <4>1, <2>2, <1>1
    <3> QED
      BY <3>1, <3>2
  <2>4. Covers(ReadOrder(r), g + c, Values \ {Logging}) /\ Covers(ReadOrder(r), g + c, shared)
    BY <2>3, <1>2 DEF Covers
  <2> QED
    BY <1>1, <1>4, <2>2, <2>4
<1>5. CASE r # "window" /\ voice[r] # "custom"
  <2>1. ReadOrder(r) = GlobalOrder
    BY <1>5 DEF ReadOrder
  <2> QED
    BY <1>1, <1>5, <2>1, OrdersAreSequences
<1> QED
  BY <1>3, <1>4, <1>5

LEMMA OrdersHaveLengths ==
    /\ \A r \in Readers : Len(ReadOrder(r)) \in Nat
    /\ \A w \in Writers : LastWrite(w) \in Nat /\ LastWrite(w) <= Len(SaveOrder)
    /\ "window" \in Readers /\ Hosts \subseteq Readers /\ "window" \notin Hosts
<1>1. Len(SaveOrder) \in Nat \ {0}
  BY SaveOrderIsComplete
<1>2. \A r \in Readers : Len(ReadOrder(r)) \in 0..Len(SaveOrder)
  BY ReadOrderIsComplete
<1>3. "window" \notin Hosts
  BY DialogAssumption
<1> QED
  BY <1>1, <1>2, <1>3 DEF LastWrite, Readers

LEMMA TokensHaveLengths ==
    /\ Len(GlobalOrder) \in Nat
    /\ Len(GlobalOrder \o CustomOrder) \in Nat
BY OrdersAreSequences, Concat, OrdersAreComplete

\* What is read of a value that is as some position means it is that number.
Positioned(c) == IF c \in Boxes THEN {0, 1} ELSE 0..100

LEMMA ThereIsInScale ==
    ASSUME NEW name \in Numbers, NEW p \in 0..100
    PROVE  InLimits(name, percent_to_range(p, Least[name], Most[name]))
<1>1. /\ Least[name] \in Int /\ Most[name] - Least[name] \in Nat \ {0}
      /\ InScale(Most[name] - Least[name], There(Most[name] - Least[name], p))
  <2>1. name \in {"Speed", "Pitch", "Volume", "Pause1", "Pause2", "Pause3", "Pause4"}
    BY NamesOfNumbers
  <2>2. /\ Least[name] \in {0, 45, 85} /\ Most[name] - Least[name] \in {46, 100, 265, 3000, 65535}
    BY <2>1 DEF Least, Most
  <2>3. \A steps \in {46, 100, 265, 3000, 65535} : InScale(steps, There(steps, p))
    BY SpeedSettles, PitchSettles, VolumeSettles, PauseSettles, LastPauseSettles
  <2> QED
    BY <2>2, <2>3
<1>2. Most[name] \in Int
  BY LimitsAreOrdered
<1> DEFINE steps == Most[name] - Least[name]
           n == There(steps, p)
<1>3. Most[name] = Least[name] + steps
  BY <1>1, <1>2
<1>4. percent_to_range(p, Least[name], Least[name] + steps) = Least[name] + n
  BY <1>1, MeantIsThere
<1> HIDE DEF n
<1> QED
  BY <1>1, <1>2, <1>3, <1>4 DEF InLimits, InScale, n

LEMMA RateOfPosition == ASSUME NEW p \in 0..100 PROVE RateOfSlider[p] \in 25..400
<1>1. RateOfSlider \in [0..100 -> 25..400]
  BY SettingsAssumption, Zenon
<1> DEFINE positions == 0..100
           rates == 25..400
<1>2. RateOfSlider \in [positions -> rates] /\ p \in positions
  BY <1>1
<1> HIDE DEF positions, rates
<1>3. RateOfSlider[p] \in rates
  BY <1>2
<1> QED
  BY <1>3 DEF rates

LEMMA PositionOfRate == ASSUME NEW i \in 25..400 PROVE SliderOfRate[i] \in 0..100
<1>1. SliderOfRate \in [25..400 -> 0..100]
  BY SettingsAssumption, Zenon
<1> DEFINE positions == 0..100
           rates == 25..400
<1>2. SliderOfRate \in [rates -> positions] /\ i \in rates
  BY <1>1
<1> HIDE DEF positions, rates
<1>3. SliderOfRate[i] \in positions
  BY <1>2
<1> QED
  BY <1>3 DEF positions

LEMMA MeantIsTaken ==
    ASSUME NEW c \in Sliders \cup Boxes, NEW q \in Positioned(c)
    PROVE  /\ Meant(c, q) \in Int
           /\ Taken(c, Meant(c, q)) = Meant(c, q)
           /\ c \in Sliders => InLimits(c, Meant(c, q))
           /\ c \in Boxes => Meant(c, q) = q /\ q \in {0, 1}
<1>1. CASE c \in Boxes
  <2>1. c \notin Numbers \cup Multipliers
    BY <1>1, BoxesAreNoSliders DEF Sliders
  <2>2. Meant(c, q) = q /\ q \in {0, 1}
    BY <1>1, <2>1 DEF Meant, Positioned, Multipliers
  <2> QED
    BY <1>1, <2>1, <2>2 DEF Taken, Sliders
<1>2. CASE c \in Sliders
  <2>1. c \notin Boxes /\ q \in 0..100
    BY <1>2, BoxesAreNoSliders DEF Positioned
  <2>2. InLimits(c, Meant(c, q))
    <3>1. CASE c \in Numbers
      BY <3>1, <2>1, ThereIsInScale DEF Meant
    <3>2. CASE c = "RatePercent"
      <4>1. c \notin Numbers
        BY <3>2, NamesOfNumbers
      <4> QED
        <5>1. Meant(c, q) = RateOfSlider[q] /\ Least[c] = 25 /\ Most[c] = 400
          BY <3>2, <4>1 DEF Meant, Least, Most
        <5>2. RateOfSlider[q] \in 25..400
          BY <2>1, RateOfPosition
        <5> QED
          BY <5>1, <5>2 DEF InLimits
    <3>3. CASE c = "VolumePercent"
      <4>1. c \notin Numbers
        BY <3>3, NamesOfNumbers
      <4> QED
        BY <3>3, <2>1, <4>1 DEF Meant, InLimits, Least, Most
    <3> QED
      BY <1>2, <3>1, <3>2, <3>3 DEF Sliders, Multipliers
  <2>3. Least[c] \in Int /\ Most[c] \in Int
    BY <1>2, LimitsAreOrdered DEF Sliders
  <2>4. Taken(c, Meant(c, q)) = clamp(Meant(c, q), Least[c], Most[c])
    BY <1>2 DEF Taken, Sliders
  <2> QED
    BY <2>1, <2>2, <2>3, <2>4 DEF clamp, InLimits
<1> QED
  BY <1>1, <1>2

\* The engine's own settings are on their scales too.
LEMMA DefaultIsTaken ==
    ASSUME NEW name \in OwnNames \cup SharedNames
    PROVE  /\ Taken(name, Default[name]) = Default[name]
           /\ name \notin Sliders => Default[name] = 0
<1>1. CASE name \in Sliders
  <2>1. name \in Names \ {"HonourTags", "SpeakPunctuation", "OverridePauses"}
    BY <1>1, NamesOfNumbers DEF Sliders, Multipliers, Names
  <2>2. InLimits(name, Default[name])
    BY <2>1 DEF Names, InLimits, Default, Least, Most
  <2>3. Taken(name, Default[name]) = clamp(Default[name], Least[name], Most[name])
    BY <1>1 DEF Taken, Sliders
  <2>4. Least[name] \in Int /\ Most[name] \in Int
    BY <1>1, LimitsAreOrdered DEF Sliders
  <2> QED
    BY <1>1, <2>2, <2>3, <2>4 DEF clamp, InLimits
<1>2. CASE name \notin Sliders
  <2>1. name \in {"HonourTags", "SpeakPunctuation", "OverridePauses"}
    BY <1>2, NamesOfSwitches DEF OwnNames, SharedNames, Sliders, Numbers
  <2> QED
    BY <1>2, <2>1 DEF Taken, Default, Sliders
<1> QED
  BY <1>1, <1>2

LEMMA ShownIsPosition ==
    ASSUME NEW c \in Sliders, NEW i \in Int
    PROVE  Shown(c, i) \in 0..100
<1>1. CASE c \in Numbers
  <2> DEFINE least == Least[c]
             most == Most[c]
             d == most - least
             k == clamp(i, least, most) - least
  <2>1. least \in Int /\ most \in Int /\ d \in Nat \ {0}
    BY <1>1, NamesOfNumbers DEF Least, Most
  <2>2. k \in Int /\ 0 <= k /\ k <= d
    BY <2>1 DEF clamp
  <2>3. Shown(c, i) = (2 * (k * 100) + d) \div (2 * d)
    BY <1>1 DEF Shown, range_to_percent, lround
  <2> HIDE DEF least, most, d, k
  <2>4. (2 * (k * 100) + d) \div (2 * d) \in 0..100
    <3> DEFINE x == 2 * (k * 100) + d
               e == 2 * d
               y == x \div e
    <3>1. x \in Int /\ e \in Nat \ {0} /\ 0 <= x /\ x < 101 * e
      BY <2>1, <2>2
    <3> HIDE DEF x, e
    <3>2. y \in Int /\ e * y <= x /\ x < e * y + e
      BY <3>1
    <3>3. 0 <= y
      BY <3>1, <3>2
    <3>4. y <= 100
      BY <3>1, <3>2
    <3> QED
      BY <3>2, <3>3, <3>4 DEF x, e
  <2> QED
    BY <2>3, <2>4
<1>2. CASE c = "RatePercent"
  <2>1. c \notin Numbers
    BY <1>2, NamesOfNumbers
  <2>2. clamp(i, 25, 400) \in 25..400
    BY DEF clamp
  <2> QED
    BY <1>2, <2>1, <2>2, PositionOfRate DEF Shown
<1>3. CASE c = "VolumePercent"
  <2>1. c \notin Numbers
    BY <1>3, NamesOfNumbers
  <2> QED
    BY <1>3, <2>1 DEF Shown, clamp
<1> QED
  BY <1>1, <1>2, <1>3 DEF Sliders, Multipliers

-----------------------------------------------------------------------------
(* The inductive invariant of ConfigDialog.                                *)

Idle(w) == write[w].at = 0

DialogType ==
    /\ registry \in [Values -> Int \cup {Absent}]
    /\ dictionary \in {0, 1}
    /\ window \in {"closed", "loading", "ready", "saving", "told"}
    /\ controls = [c \in Sliders \cup Boxes |-> controls[c]]
    /\ \A c \in Sliders \cup Boxes : controls[c] \in Positioned(c)
    /\ at \in [Readers -> Nat]
    /\ \A r \in Readers : at[r] <= Len(ReadOrder(r)) + 1
    /\ got \in [Readers -> [Values -> Int]]
    /\ expects = [r \in Readers |-> expects[r]]
    /\ write \in [Writers -> [at : Nat, ok : BOOLEAN]]
    /\ \A w \in Writers : write[w].at <= LastWrite(w) + 1
    /\ voice \in [Hosts -> DOMAIN PRESETS \cup {"custom"}]
    /\ lone \in BOOLEAN

\* A writer that began alone is alone as long as lone holds.
OneAtATime ==
    /\ window = "saving" <=> ~Idle("save")
    /\ lone => Idle("save") \/ Idle("reset")

\* The registry is as the save or reset that was agreed on left it.
Kept(a, reg) ==
    \/ /\ a.by = "save"
       /\ \A c \in Sliders \cup Boxes : \E q \in Positioned(c) : a.numbers[c] = Meant(c, q)
       /\ \A v \in Values \ {Logging} : reg[v] = a.numbers[v[2]]
    \/ /\ a.by = "reset"
       /\ \A v \in Values \ {Logging} : reg[v] = Default[v[2]]

Agreement == agreed # Nothing => /\ Idle("save") /\ Idle("reset")
                                 /\ Kept(agreed, registry)

\* What a reader has read since an agreement is what is there.
Fresh(order, n, read, reg) ==
    \A i \in 1..(n - 1) : read[order[i]] = read_dword(reg, order[i])

ReadersAgree ==
    \A r \in Readers :
        expects[r] # Nothing => /\ expects[r] = agreed
                                /\ Fresh(ReadOrder(r), at[r], got[r], registry)

\* What a lone writer has written is there, if no write failed.
Arrived(w) ==
    \A i \in 1..(write[w].at - 1) :
        SaveOrder[i] # Logging => registry[SaveOrder[i]] = Written(w, SaveOrder[i])

Progress == \A w \in Writers : lone /\ write[w].ok => Arrived(w)

Told ==
    window = "told" =>
        /\ agreed # Nothing /\ agreed.by = "save" => agreed.numbers = Tested
        /\ said.dictionary => dictionary = controls["UserDict"]

\* The controls mean what was found, and nobody else writes.
Found ==
    found # Nothing =>
        /\ Idle("reset")
        /\ window \in {"ready", "saving", "told"}
        /\ \A v \in Values \ {Logging} :
              registry[v] = found[v] /\ Meant(v[2], controls[v[2]]) = found[v]
        /\ Taken("Logging", read_dword(registry, Logging)) = controls["Logging"]
        /\ Taken("Logging", read_dword(found, Logging)) = controls["Logging"]

DialogInv ==
    DialogType /\ OneAtATime /\ Agreement /\ ReadersAgree /\ Progress /\ Told /\ Found

\* What is read of a registry that is as agreed.
LEMMA KeptIsRead ==
    ASSUME NEW a, NEW reg \in [Values -> Int \cup {Absent}], Kept(a, reg),
           NEW v \in Values \ {Logging}
    PROVE  /\ a.by = "save" => Taken(v[2], read_dword(reg, v)) = a.numbers[v[2]]
           /\ a.by = "reset" => Taken(v[2], read_dword(reg, v)) = Default[v[2]]
           /\ a.by \in {"save", "reset"}
<1>1. v[2] \in Sliders \cup Boxes /\ v[2] \in OwnNames \cup SharedNames
  BY NamesOfValues
<1>2. CASE a.by = "save"
  <2>1. PICK q \in Positioned(v[2]) : a.numbers[v[2]] = Meant(v[2], q)
    BY <1>1, <1>2 DEF Kept
  <2>2. reg[v] = a.numbers[v[2]]
    BY <1>2 DEF Kept
  <2> QED
    BY <1>1, <1>2, <2>1, <2>2, MeantIsTaken, ReadGivesNumbers
<1>3. CASE a.by = "reset"
  <2>1. reg[v] = Default[v[2]]
    BY <1>3 DEF Kept
  <2> QED
    BY <1>1, <1>3, <2>1, DefaultIsTaken, DefaultsAreNumbers, ReadGivesNumbers
<1> QED
  BY <1>2, <1>3 DEF Kept

\* What a reader that is through with its values has made of them.
LEMMA LoadedAsAgreed ==
    ASSUME DialogInv, NEW r \in Readers, HasRead(r), expects[r] # Nothing,
           NEW v \in Values, \E i \in 1..Len(ReadOrder(r)) : ReadOrder(r)[i] = v
    PROVE  /\ got[r][v] = read_dword(registry, v)
           /\ \A key, name : v = <<key, name>>
                 => Loaded(key, got[r])[name] = Taken(name, read_dword(registry, v))
           /\ expects[r] = agreed /\ agreed # Nothing /\ Kept(agreed, registry)
<1>1. /\ expects[r] = agreed /\ Fresh(ReadOrder(r), at[r], got[r], registry)
      /\ agreed # Nothing /\ Kept(agreed, registry)
  BY DEF DialogInv, ReadersAgree, Agreement
<1>2. PICK i \in 1..Len(ReadOrder(r)) : ReadOrder(r)[i] = v
  OBVIOUS
<1>3. Len(ReadOrder(r)) \in Nat /\ at[r] = Len(ReadOrder(r)) + 1
  BY ReadOrderIsComplete, SaveOrderIsComplete DEF HasRead
<1>4. i \in 1..(at[r] - 1)
  BY <1>3
<1>5. got[r][v] = read_dword(registry, v)
  BY <1>1, <1>2, <1>4 DEF Fresh
<1>6. ASSUME NEW key, NEW name, v = <<key, name>>
      PROVE  Loaded(key, got[r])[name] = Taken(name, read_dword(registry, v))
  BY <1>5, <1>6, LoadedIsTaken
<1> QED
  BY <1>1, <1>5, <1>6

-----------------------------------------------------------------------------
(* The initial states, and the steps one by one.                           *)

LEMMA DialogStarts == Init => DialogInv
<1> SUFFICES ASSUME Init PROVE DialogInv
  OBVIOUS
<1>1. DialogType
  <2>1. registry \in [Values -> Int \cup {Absent}] /\ dictionary \in {0, 1}
    BY DialogAssumption DEF Init
  <2>2. /\ controls = [c \in Sliders \cup Boxes |-> 0]
        /\ \A c \in Sliders \cup Boxes : 0 \in Positioned(c)
    BY DEF Init, Blank, Positioned
  <2>3. got \in [Readers -> [Values -> Int]]
    BY DEF Init, NotRead
  <2>4. \A r \in Readers : Len(ReadOrder(r)) \in Nat
    BY ReadOrderIsComplete, SaveOrderIsComplete
  <2>5. \A w \in Writers : LastWrite(w) \in Nat
    BY SaveOrderIsComplete DEF LastWrite
  <2>6. "roger" \in DOMAIN PRESETS
    BY DEF PRESETS
  <2> QED
    BY <2>1, <2>2, <2>3, <2>4, <2>5, <2>6 DEF Init, DialogType
<1> QED
  BY <1>1 DEF Init, DialogInv, OneAtATime, Agreement, ReadersAgree, Progress, Arrived,
              Told, Found, Idle, Writers

\* A step that only reads leaves what the writers and the window say alone.
LEMMA ReadingIsQuiet ==
    ASSUME DialogInv,
           UNCHANGED <<registry, dictionary, dialogVars, writeVars>>
    PROVE  OneAtATime' /\ Agreement' /\ Progress' /\ Told' /\ Found'
<1> USE DEF DialogInv, dialogVars, writeVars
<1>1. OneAtATime'
  BY DEF OneAtATime, Idle
<1>2. Agreement'
  BY DEF Agreement, Idle
<1>3. Progress'
  BY DEF Progress, Arrived, Written
<1>4. Told'
  BY DEF Told, Tested
<1>5. Found'
  BY DEF Found, Idle
<1> QED
  BY <1>1, <1>2, <1>3, <1>4, <1>5

LEMMA ReadNextKeeps ==
    ASSUME DialogInv, NEW r \in Readers, ReadNext(r)
    PROVE  DialogInv'
<1> DEFINE n == at[r]
           v == ReadOrder(r)[n]
<1>1. OneAtATime' /\ Agreement' /\ Progress' /\ Told' /\ Found'
  BY ReadingIsQuiet DEF ReadNext
<1>2. \A s \in Readers : ReadOrder(s)' = ReadOrder(s)
  BY DEF ReadNext, ReadOrder
<1>3. ReadOrder(r) \in Seq(Values) /\ Len(ReadOrder(r)) \in Nat /\ n \in 1..Len(ReadOrder(r))
  <2>1. n \in 1..Len(ReadOrder(r))
    BY DEF ReadNext
  <2>2. ReadOrder(r) \in Seq(Values)
    BY ReadOrderIsComplete
  <2> QED
    BY <2>1, <2>2, OrdersHaveLengths
<1>4. v \in Values
  BY <1>3
<1>5. read_dword(registry, v) \in Int
  BY <1>4, ReadGivesNumbers DEF DialogInv, DialogType
<1> HIDE DEF v
<1>6. /\ got' = [got EXCEPT ![r][v] = read_dword(registry, v)]
      /\ at' = [at EXCEPT ![r] = n + 1]
  BY DEF ReadNext, v
<1>7. DialogType'
  <2>1. got' \in [Readers -> [Values -> Int]]
    BY <1>4, <1>5, <1>6 DEF DialogInv, DialogType
  <2>2. at' \in [Readers -> Nat] /\ \A s \in Readers : at'[s] <= Len(ReadOrder(s)) + 1
    BY <1>3, <1>6 DEF DialogInv, DialogType
  <2> QED
    BY <1>2, <2>1, <2>2 DEF DialogInv, DialogType, ReadNext, dialogVars, writeVars
<1>8. ReadersAgree'
  <2> SUFFICES ASSUME NEW s \in Readers, expects'[s] # Nothing
               PROVE  expects'[s] = agreed' /\ Fresh(ReadOrder(s), at'[s], got'[s], registry)
    BY <1>2 DEF ReadersAgree, ReadNext
  <2>1. /\ expects[s] # Nothing /\ expects'[s] = expects[s] /\ agreed' = agreed
        /\ expects[s] = agreed /\ Fresh(ReadOrder(s), at[s], got[s], registry)
    BY DEF DialogInv, ReadersAgree, ReadNext, writeVars
  <2>2. CASE s # r
    BY <2>1, <2>2, <1>6 DEF DialogInv, DialogType
  <2>3. CASE s = r
    <3>1. at'[r] = n + 1 /\ got'[r] = [got[r] EXCEPT ![v] = read_dword(registry, v)]
      BY <1>6 DEF DialogInv, DialogType
    <3>2. got[r] \in [Values -> Int]
      BY DEF DialogInv, DialogType
    <3>3. ASSUME NEW i \in 1..n
          PROVE  got'[r][ReadOrder(r)[i]] = read_dword(registry, ReadOrder(r)[i])
      <4>1. CASE ReadOrder(r)[i] = v
        BY <1>4, <3>1, <3>2, <4>1
      <4>2. CASE ReadOrder(r)[i] # v
        <5>1. i \in 1..(n - 1)
          BY <1>3, <4>2 DEF v
        <5> QED
          BY <2>1, <2>3, <3>1, <3>2, <4>2, <5>1 DEF Fresh
      <4> QED
        BY <4>1, <4>2
    <3>4. 1..(at'[r] - 1) = 1..n
      BY <1>3, <3>1
    <3> QED
      BY <2>1, <2>3, <3>3, <3>4 DEF Fresh
  <2> QED
    BY <2>2, <2>3
<1> QED
  BY <1>1, <1>7, <1>8 DEF DialogInv

LEMMA SetObjectTokenKeeps ==
    ASSUME DialogInv, NEW h \in Hosts, NEW id, SetObjectToken(h, id)
    PROVE  DialogInv'
<1>1. OneAtATime' /\ Agreement' /\ Progress' /\ Told' /\ Found'
  BY ReadingIsQuiet DEF SetObjectToken
<1>2. Named(id) \in DOMAIN PRESETS \cup {"custom"}
  BY DEF Named, PRESETS
<1>3. /\ at[h] = 0 /\ h \in Readers
      /\ \A r \in Readers \ {h} : ReadOrder(r)' = ReadOrder(r)
  <2>1. \A r \in Hosts \ {h} : voice'[r] = voice[r]
    BY DEF SetObjectToken, DialogInv, DialogType
  <2> QED
    BY <2>1, OrdersHaveLengths DEF SetObjectToken, ReadOrder, Readers
<1>4. Len(ReadOrder(h)') \in Nat
  <2>1. h # "window"
    BY OrdersHaveLengths
  <2> QED
    BY <2>1, TokensHaveLengths DEF ReadOrder
<1>5. DialogType'
  <2>1. voice' \in [Hosts -> DOMAIN PRESETS \cup {"custom"}]
    BY <1>2 DEF DialogInv, DialogType, SetObjectToken
  <2>2. at' = at /\ at \in [Readers -> Nat]
    BY DEF DialogInv, DialogType, SetObjectToken, readVars
  <2>3. \A r \in Readers : at'[r] <= Len(ReadOrder(r)') + 1
    <3> SUFFICES ASSUME NEW r \in Readers PROVE at'[r] <= Len(ReadOrder(r)') + 1
      OBVIOUS
    <3>1. CASE r = h
      BY <1>3, <1>4, <2>2, <3>1
    <3>2. CASE r # h
      BY <1>3, <2>2, <3>2 DEF DialogInv, DialogType
    <3> QED
      BY <3>1, <3>2
  <2> QED
    BY <2>1, <2>2, <2>3
       DEF DialogInv, DialogType, SetObjectToken, dialogVars, readVars, writeVars
<1>6. ReadersAgree'
  <2> SUFFICES ASSUME NEW r \in Readers, expects[r] # Nothing
               PROVE  expects[r] = agreed /\ Fresh(ReadOrder(r)', at[r], got[r], registry)
    BY DEF ReadersAgree, SetObjectToken, readVars, writeVars
  <2>1. expects[r] = agreed /\ Fresh(ReadOrder(r), at[r], got[r], registry)
    BY DEF DialogInv, ReadersAgree
  <2> QED
    BY <1>3, <2>1 DEF Fresh
<1> QED
  BY <1>1, <1>5, <1>6 DEF DialogInv

\* A step of one reader that begins, or ends, its reading.
LEMMA OneReaderMoves ==
    ASSUME DialogInv, NEW r \in Readers, NEW n \in {0, 1}, NEW e \in {agreed, Nothing},
           NEW read \in [Values -> Int],
           at' = [at EXCEPT ![r] = n], expects' = [expects EXCEPT ![r] = e],
           got' = [got EXCEPT ![r] = read],
           UNCHANGED <<registry, dictionary, voice, writeVars>>
    PROVE  /\ at' \in [Readers -> Nat]
           /\ \A s \in Readers : at'[s] <= Len(ReadOrder(s)') + 1
           /\ got' \in [Readers -> [Values -> Int]]
           /\ expects' = [s \in Readers |-> expects'[s]]
           /\ ReadersAgree'
<1>1. \A s : ReadOrder(s)' = ReadOrder(s)
  BY DEF ReadOrder
<1>2. /\ at \in [Readers -> Nat] /\ expects = [s \in Readers |-> expects[s]]
      /\ \A s \in Readers : at[s] <= Len(ReadOrder(s)) + 1
      /\ got \in [Readers -> [Values -> Int]]
  BY DEF DialogInv, DialogType
<1>3. ReadersAgree'
  <2> SUFFICES ASSUME NEW s \in Readers, expects'[s] # Nothing
               PROVE  expects'[s] = agreed /\ Fresh(ReadOrder(s), at'[s], got'[s], registry)
    BY <1>1 DEF ReadersAgree, writeVars
  <2>1. CASE s = r
    BY <1>2, <2>1 DEF Fresh
  <2>2. CASE s # r
    BY <1>2, <2>2 DEF DialogInv, ReadersAgree
  <2> QED
    BY <2>1, <2>2
<1>4. at' \in [Readers -> Nat] /\ got' \in [Readers -> [Values -> Int]]
  BY <1>2
<1>5. \A s \in Readers : at'[s] <= Len(ReadOrder(s)) + 1
  BY <1>2, OrdersHaveLengths
<1>6. expects' = [s \in Readers |-> expects'[s]]
  BY <1>2
<1> QED
  BY <1>1, <1>3, <1>4, <1>5, <1>6

LEMMA SpeakKeeps ==
    ASSUME DialogInv, NEW h \in Hosts, Speak(h)
    PROVE  DialogInv'
<1>1. OneAtATime' /\ Agreement' /\ Progress' /\ Told' /\ Found'
  BY ReadingIsQuiet DEF Speak
<1>2. got' = [got EXCEPT ![h] = got[h]] /\ got[h] \in [Values -> Int] /\ h \in Readers
  BY OrdersHaveLengths DEF Speak, DialogInv, DialogType
<1>3. /\ at' \in [Readers -> Nat]
      /\ \A s \in Readers : at'[s] <= Len(ReadOrder(s)') + 1
      /\ got' \in [Readers -> [Values -> Int]]
      /\ expects' = [s \in Readers |-> expects'[s]]
      /\ ReadersAgree'
  BY <1>2, OneReaderMoves DEF Speak, BeginReading
<1>4. DialogType'
  BY <1>3 DEF DialogInv, DialogType, Speak, dialogVars, writeVars
<1> QED
  BY <1>1, <1>3, <1>4 DEF DialogInv

LEMMA UtterKeeps ==
    ASSUME DialogInv, NEW h \in Hosts, Utter(h)
    PROVE  DialogInv'
<1>1. OneAtATime' /\ Agreement' /\ Progress' /\ Told' /\ Found'
  BY ReadingIsQuiet DEF Utter
<1>2. NotRead \in [Values -> Int] /\ h \in Readers
  BY OrdersHaveLengths DEF NotRead
<1>3. /\ at' \in [Readers -> Nat]
      /\ \A s \in Readers : at'[s] <= Len(ReadOrder(s)') + 1
      /\ got' \in [Readers -> [Values -> Int]]
      /\ expects' = [s \in Readers |-> expects'[s]]
      /\ ReadersAgree'
  BY <1>2, OneReaderMoves DEF Utter, DoneReading
<1>4. DialogType'
  BY <1>3 DEF DialogInv, DialogType, Utter, dialogVars, writeVars
<1> QED
  BY <1>1, <1>3, <1>4 DEF DialogInv

LEMMA HostKeeps ==
    ASSUME DialogInv, NEW h \in Hosts, Host(h)
    PROVE  DialogInv'
<1>1. h \in Readers
  BY OrdersHaveLengths
<1> QED
  BY <1>1, SetObjectTokenKeeps, SpeakKeeps, ReadNextKeeps, UtterKeeps DEF Host

-----------------------------------------------------------------------------
(* The steps of the window that neither read nor write.                    *)

IsPositions(p) ==
    /\ p = [c \in Sliders \cup Boxes |-> p[c]]
    /\ \A c \in Sliders \cup Boxes : p[c] \in Positioned(c)

LEMMA ControlsMove ==
    ASSUME DialogInv, UNCHANGED <<registry, dictionary, voice, readVars, writeVars>>,
           window # "saving", window' \in {"closed", "ready"}, IsPositions(controls'),
           found' = Nothing \/ (window' = "ready" /\ UNCHANGED <<found, controls>>)
    PROVE  DialogInv'
<1> USE DEF DialogInv, readVars, writeVars
<1>1. DialogType'
  <2>1. \A r \in Readers : ReadOrder(r)' = ReadOrder(r)
    BY DEF ReadOrder
  <2>2. \A w \in Writers : LastWrite(w)' = LastWrite(w)
    BY DEF LastWrite
  <2> QED
    BY <2>1, <2>2 DEF DialogType, IsPositions
<1>2. OneAtATime' /\ Idle("save")
  BY DEF OneAtATime, Idle
<1>3. Agreement'
  BY DEF Agreement, Idle
<1>4. ReadersAgree'
  <2>1. \A r \in Readers : ReadOrder(r)' = ReadOrder(r)
    BY DEF ReadOrder
  <2> QED
    BY <2>1 DEF ReadersAgree
<1>5. Progress'
  <2>1. Arrived("save")'
    BY <1>2 DEF Arrived, Idle
  <2>2. lone /\ write["reset"].ok => Arrived("reset")'
    BY DEF Progress, Arrived, Written, Writers
  <2> QED
    BY <2>1, <2>2 DEF Progress, Writers
<1>6. Told'
  BY DEF Told
<1>7. Found'
  BY DEF Found, Idle
<1> QED
  BY <1>1, <1>2, <1>3, <1>4, <1>5, <1>6, <1>7

LEMMA TouchKeeps ==
    ASSUME DialogInv, NEW new, IsPositions(new), Touch(new)
    PROVE  DialogInv'
BY ControlsMove DEF Touch

LEMMA MoveKeeps == ASSUME DialogInv, Move PROVE DialogInv'
<1>1. PICK c \in Sliders \cup Boxes : \E n \in IF c \in Boxes THEN {0, 1} ELSE Positions :
         Touch([controls EXCEPT ![c] = n])
  BY DEF Move
<1>2. PICK n \in IF c \in Boxes THEN {0, 1} ELSE Positions :
         Touch([controls EXCEPT ![c] = n])
  BY <1>1
<1>3. n \in Positioned(c)
  BY <1>2, DialogAssumption DEF Positioned
<1>4. IsPositions([controls EXCEPT ![c] = n])
  BY <1>3 DEF DialogInv, DialogType, IsPositions
<1> QED
  BY <1>2, <1>4, TouchKeeps

LEMMA ResetToDefaultsKeeps == ASSUME DialogInv, reset_to_defaults PROVE DialogInv'
<1> DEFINE new == [c \in Sliders \cup Boxes |->
                       IF c \in Sliders THEN Shown(c, Default[c])
                       ELSE IF c \in {"Logging", "UserDict"} THEN controls[c] ELSE 0]
<1>1. ASSUME NEW c \in Sliders PROVE Shown(c, Default[c]) \in Positioned(c)
  <2>1. Default[c] \in Int
    <3>1. c \in Names \ {"HonourTags", "SpeakPunctuation"}
      BY NamesOfNumbers DEF Names, Sliders, Multipliers
    <3> QED
      BY <3>1 DEF Names, Default
  <2> QED
    BY <2>1, ShownIsPosition, BoxesAreNoSliders DEF Positioned
<1>2. ASSUME NEW c \in Boxes PROVE new[c] \in Positioned(c)
  BY BoxesAreNoSliders DEF DialogInv, DialogType, Positioned
<1>3. IsPositions(new)
  BY <1>1, <1>2 DEF IsPositions
<1> QED
  BY <1>3, TouchKeeps DEF reset_to_defaults

LEMMA CopyFromPresetKeeps ==
    ASSUME DialogInv, NEW id \in DOMAIN PRESETS, copy_from_preset(id)
    PROVE  DialogInv'
<1> DEFINE new == [c \in Sliders \cup Boxes |->
                       IF c \in Numbers THEN Shown(c, preset_params(id)[c])
                       ELSE controls[c]]
<1>1. ASSUME NEW c \in Numbers PROVE Shown(c, preset_params(id)[c]) \in Positioned(c)
  <2>1. preset_params(id)[c] \in Int
    BY PresetInLimits DEF InLimits
  <2> QED
    BY <2>1, ShownIsPosition, BoxesAreNoSliders DEF Positioned, Sliders
<1>2. IsPositions(new)
  BY <1>1 DEF IsPositions, DialogInv, DialogType
<1> QED
  BY <1>2, TouchKeeps DEF copy_from_preset

LEMMA CloseKeeps == ASSUME DialogInv, Close PROVE DialogInv'
<1>1. IsPositions(Blank)
  BY DEF IsPositions, Blank, Positioned
<1> QED
  BY <1>1, ControlsMove DEF Close

LEMMA DismissKeeps == ASSUME DialogInv, Dismiss PROVE DialogInv'
<1>1. IsPositions(controls)
  BY DEF IsPositions, DialogInv, DialogType
<1> QED
  BY <1>1, ControlsMove DEF Dismiss

LEMMA OpenKeeps == ASSUME DialogInv, Open PROVE DialogInv'
<1>1. got' = [got EXCEPT !["window"] = got["window"]] /\ got["window"] \in [Values -> Int]
  BY OrdersHaveLengths DEF Open, DialogInv, DialogType
<1>2. /\ at' \in [Readers -> Nat]
      /\ \A s \in Readers : at'[s] <= Len(ReadOrder(s)') + 1
      /\ got' \in [Readers -> [Values -> Int]]
      /\ expects' = [s \in Readers |-> expects'[s]]
      /\ ReadersAgree'
  BY <1>1, OneReaderMoves, OrdersHaveLengths DEF Open, BeginReading
<1> USE DEF DialogInv, Open, writeVars
<1>3. DialogType'
  BY <1>2 DEF DialogType, LastWrite
<1>4. OneAtATime'
  BY DEF OneAtATime, Idle
<1>5. Agreement'
  BY DEF Agreement, Idle
<1>6. Progress'
  BY DEF Progress, Arrived, Written
<1>7. Told' /\ Found'
  BY DEF Told, Found
<1> QED
  BY <1>2, <1>3, <1>4, <1>5, <1>6, <1>7

-----------------------------------------------------------------------------
(* The window shows what it has read.                                      *)

\* The controls after load_into_dialog, each by what it shows.
LEMMA LoadedControls ==
    ASSUME DialogInv, load_into_dialog
    PROVE  LET v == Loaded(CUSTOM_KEY, got["window"])
               g == Loaded(GLOBAL_KEY, got["window"])
           IN  /\ controls' = [c \in Sliders \cup Boxes |-> controls'[c]]
               /\ \A c \in Numbers : controls'[c] = Shown(c, v[c])
               /\ \A c \in Multipliers : controls'[c] = Shown(c, g[c])
               /\ \A c \in Range(Switches) :
                     controls'[c] = IF v[c] = 1 \/ g[c] = 1 THEN 1 ELSE 0
               /\ controls'["OverridePauses"] = g["OverridePauses"]
               /\ controls'["Logging"] = Taken("Logging", got["window"][Logging])
               /\ controls'["UserDict"] = dictionary
<1> DEFINE v == Loaded(CUSTOM_KEY, got["window"])
           g == Loaded(GLOBAL_KEY, got["window"])
<1>1. controls' = [c \in Sliders \cup Boxes |->
                      IF c \in Numbers THEN Shown(c, v[c])
                      ELSE IF c \in Multipliers THEN Shown(c, g[c])
                      ELSE IF c \in Range(Switches)
                           THEN IF v[c] = 1 \/ g[c] = 1 THEN 1 ELSE 0
                      ELSE IF c = "OverridePauses" THEN g[c]
                      ELSE IF c = "Logging" THEN Taken(c, got["window"][Logging])
                      ELSE dictionary]
  BY DEF load_into_dialog
<1> HIDE DEF v, g
<1>2. /\ Numbers \cap Multipliers = {} /\ Range(Switches) \cap (Numbers \cup Multipliers) = {}
      /\ {"OverridePauses", "Logging", "UserDict"}
             \cap (Numbers \cup Multipliers \cup Range(Switches)) = {}
  BY NamesOfNumbers, NamesOfSwitches DEF Multipliers
<1>3. /\ Numbers \cup Multipliers \subseteq Sliders
      /\ Range(Switches) \cup {"OverridePauses", "Logging", "UserDict"} \subseteq Boxes
  BY DEF Sliders, Boxes
<1>4. controls' = [c \in Sliders \cup Boxes |-> controls'[c]]
  BY <1>1
<1>5. /\ \A c \in Numbers : controls'[c] = Shown(c, v[c])
      /\ \A c \in Multipliers : controls'[c] = Shown(c, g[c])
      /\ \A c \in Range(Switches) : controls'[c] = IF v[c] = 1 \/ g[c] = 1 THEN 1 ELSE 0
  BY <1>1, <1>2, <1>3
<1>6. /\ controls'["OverridePauses"] = g["OverridePauses"]
      /\ controls'["Logging"] = Taken("Logging", got["window"][Logging])
      /\ controls'["UserDict"] = dictionary
  BY <1>1, <1>2, <1>3
<1> QED
  BY <1>4, <1>5, <1>6 DEF v, g

LEMMA LoadedIsPositions == ASSUME DialogInv, load_into_dialog PROVE IsPositions(controls')
<1> DEFINE v == Loaded(CUSTOM_KEY, got["window"])
           g == Loaded(GLOBAL_KEY, got["window"])
<1>1. got["window"] \in [Values -> Int]
  BY OrdersHaveLengths DEF DialogInv, DialogType
<1>2. \A c \in Numbers : v[c] \in Int
  <2> SUFFICES ASSUME NEW c \in Numbers PROVE v[c] \in Int
    OBVIOUS
  <2>1. <<CUSTOM_KEY, c>> \in Values
    BY KeysAreComplete DEF OwnNames
  <2> QED
    BY <1>1, <2>1, LoadedIsTaken, TakenInLimits DEF InLimits
<1>3. \A c \in Multipliers : g[c] \in Int
  <2> SUFFICES ASSUME NEW c \in Multipliers PROVE g[c] \in Int
    OBVIOUS
  <2>1. <<GLOBAL_KEY, c>> \in Values
    BY KeysAreComplete DEF SharedNames
  <2> QED
    BY <1>1, <2>1, LoadedIsTaken, TakenInLimits DEF InLimits
<1>4. \A c \in Boxes : \A n : Taken(c, n) \in {0, 1}
  BY BoxesAreNoSliders DEF Taken, Sliders
<1>5. g["OverridePauses"] \in {0, 1} /\ "OverridePauses" \in Boxes
  <2>1. <<GLOBAL_KEY, "OverridePauses">> \in Values
    BY KeysAreComplete DEF SharedNames
  <2> QED
    BY <1>4, <2>1, LoadedIsTaken DEF Boxes
<1>6. dictionary \in {0, 1}
  BY DEF DialogInv, DialogType
<1> HIDE DEF v, g
<1>7. \A c \in Sliders : controls'[c] \in 0..100
  BY <1>2, <1>3, LoadedControls, ShownIsPosition DEF v, g, Sliders
<1>8. \A c \in Boxes : controls'[c] \in {0, 1}
  BY <1>4, <1>5, <1>6, LoadedControls DEF v, g, Boxes
<1> QED
  BY <1>7, <1>8, LoadedControls, BoxesAreNoSliders DEF IsPositions, Positioned

\* When it has read what was saved, its controls mean that.
LEMMA LoadedMeansFound ==
    ASSUME DialogInv, load_into_dialog,
           expects["window"] # Nothing, expects["window"].by = "save"
    PROVE  /\ Idle("save") /\ Idle("reset")
           /\ \A w \in Values \ {Logging} : Meant(w[2], controls'[w[2]]) = registry[w]
           /\ controls'["Logging"] = Taken("Logging", read_dword(registry, Logging))
<1> DEFINE v == Loaded(CUSTOM_KEY, got["window"])
           g == Loaded(GLOBAL_KEY, got["window"])
           a == agreed
<1>1. "window" \in Readers /\ HasRead("window")
  BY OrdersHaveLengths DEF load_into_dialog, DoneReading
<1>2. \A w \in Values : \E i \in 1..Len(ReadOrder("window")) : ReadOrder("window")[i] = w
  BY ReadOrderIsComplete DEF Covers
<1>3. /\ expects["window"] = a /\ a # Nothing /\ a.by = "save" /\ Kept(a, registry)
      /\ Idle("save") /\ Idle("reset")
  BY <1>1, <1>2, LoggingIsApart, LoadedAsAgreed DEF DialogInv, Agreement
<1>4. \A w \in Values \ {Logging} : Taken(w[2], read_dword(registry, w)) = a.numbers[w[2]]
  BY <1>3, KeptIsRead DEF DialogInv, DialogType
<1>5. \A c \in OwnNames : v[c] = a.numbers[c]
  <2> SUFFICES ASSUME NEW c \in OwnNames PROVE v[c] = a.numbers[c]
    OBVIOUS
  <2>1. <<CUSTOM_KEY, c>> \in Values \ {Logging}
    BY KeysAreComplete, LoggingIsApart
  <2>2. v[c] = Taken(c, read_dword(registry, <<CUSTOM_KEY, c>>))
    BY <1>1, <1>2, <2>1, LoadedAsAgreed
  <2> QED
    BY <1>4, <2>1, <2>2
<1>6. \A c \in SharedNames : g[c] = a.numbers[c]
  <2> SUFFICES ASSUME NEW c \in SharedNames PROVE g[c] = a.numbers[c]
    OBVIOUS
  <2>1. <<GLOBAL_KEY, c>> \in Values \ {Logging}
    BY KeysAreComplete, LoggingIsApart
  <2>2. g[c] = Taken(c, read_dword(registry, <<GLOBAL_KEY, c>>))
    BY <1>1, <1>2, <2>1, LoadedAsAgreed
  <2> QED
    BY <1>4, <2>1, <2>2
<1> HIDE DEF v, g, a
<1>7. \A c \in Sliders \cup Boxes : \E q \in Positioned(c) : a.numbers[c] = Meant(c, q)
  BY <1>3 DEF Kept
<1>8. ASSUME NEW c \in OwnNames \cup SharedNames
      PROVE  Meant(c, controls'[c]) = a.numbers[c]
  <2>1. c \in Sliders \cup Boxes
    BY DEF OwnNames, SharedNames, Sliders, Boxes, Numbers
  <2>2. PICK q \in Positioned(c) : a.numbers[c] = Meant(c, q)
    BY <1>7, <2>1
  <2>3. CASE c \in Sliders
    <3>1. controls'[c] = Shown(c, a.numbers[c])
      <4>1. CASE c \in Numbers
        BY <1>5, <4>1, LoadedControls DEF v, OwnNames
      <4>2. CASE c \in Multipliers
        BY <1>6, <4>2, LoadedControls DEF g, SharedNames
      <4> QED
        BY <2>3, <4>1, <4>2 DEF Sliders
    <3>2. q \in 0..100
      BY <2>2, <2>3, BoxesAreNoSliders DEF Positioned
    <3> QED
      BY <2>2, <2>3, <3>1, <3>2, SlidersSettle DEF Sliders
  <2>4. CASE c \in Boxes
    <3>1. a.numbers[c] = q /\ q \in {0, 1}
      BY <2>1, <2>2, <2>4, MeantIsTaken
    <3>2. controls'[c] = q
      <4>1. CASE c \in Range(Switches)
        BY <1>5, <1>6, <3>1, <4>1, LoadedControls DEF v, g, OwnNames, SharedNames
      <4>2. CASE c = "OverridePauses"
        BY <1>6, <3>1, <4>2, LoadedControls DEF g, SharedNames
      <4>3. c \notin Sliders
        BY <2>4, BoxesAreNoSliders
      <4> QED
        BY <4>1, <4>2, <4>3 DEF OwnNames, SharedNames, Sliders, Numbers
    <3> QED
      BY <2>1, <2>2, <2>4, <3>1, <3>2, MeantIsTaken
  <2> QED
    BY <2>1, <2>3, <2>4
<1>9. ASSUME NEW w \in Values \ {Logging}
      PROVE  Meant(w[2], controls'[w[2]]) = registry[w]
  <2>1. w[2] \in OwnNames \cup SharedNames
    BY NamesOfValues
  <2> QED
    BY <1>3, <1>8, <2>1 DEF Kept
<1>10. controls'["Logging"] = Taken("Logging", read_dword(registry, Logging))
  BY <1>1, <1>2, LoadedControls, LoadedAsAgreed, LoggingIsApart
<1> QED
  BY <1>3, <1>9, <1>10

LEMMA LoadKeeps == ASSUME DialogInv, load_into_dialog PROVE DialogInv'
<1>1. NotRead \in [Values -> Int] /\ "window" \in Readers
  BY OrdersHaveLengths DEF NotRead
<1>2. /\ at' \in [Readers -> Nat]
      /\ \A s \in Readers : at'[s] <= Len(ReadOrder(s)') + 1
      /\ got' \in [Readers -> [Values -> Int]]
      /\ expects' = [s \in Readers |-> expects'[s]]
      /\ ReadersAgree'
  BY <1>1, OneReaderMoves DEF load_into_dialog, DoneReading
<1>3. /\ UNCHANGED <<registry, dictionary, voice, write, agreed, lone>>
      /\ window = "loading" /\ window' = "ready"
      /\ found' = IF expects["window"] # Nothing /\ expects["window"].by = "save"
                  THEN registry ELSE Nothing
  BY DEF load_into_dialog, writeVars
<1>4. IsPositions(controls')
  BY LoadedIsPositions
<1>5. Found'
  <2> SUFFICES ASSUME found' # Nothing PROVE Found'
    BY DEF Found
  <2>1. expects["window"] # Nothing /\ expects["window"].by = "save" /\ found' = registry
    BY <1>3
  <2> QED
    BY <1>3, <2>1, LoadedMeansFound DEF Found, Idle
<1> USE DEF DialogInv
<1>6. DialogType'
  BY <1>2, <1>3, <1>4 DEF DialogType, IsPositions, LastWrite
<1>7. OneAtATime' /\ Idle("save")
  BY <1>3 DEF OneAtATime, Idle
<1>8. Agreement'
  BY <1>3 DEF Agreement, Idle
<1>9. Progress'
  <2>1. Arrived("save")'
    BY <1>3, <1>7 DEF Arrived, Idle
  <2>2. lone /\ write["reset"].ok => Arrived("reset")'
    BY <1>3 DEF Progress, Arrived, Written, Writers
  <2> QED
    BY <1>3, <2>1, <2>2 DEF Progress, Writers
<1>10. Told'
  BY <1>3 DEF Told
<1> QED
  BY <1>2, <1>5, <1>6, <1>7, <1>8, <1>9, <1>10

-----------------------------------------------------------------------------
(* The writers.                                                            *)

LEMMA BeginsAgreed ==
    ASSUME DialogInv, NEW w \in Writers, BeginWriting(w),
           UNCHANGED <<registry, voice, at, got, controls>>
    PROVE  /\ write' \in [Writers -> [at : Nat, ok : BOOLEAN]]
           /\ \A u \in Writers : write'[u].at <= LastWrite(u) + 1
           /\ write'[w].at = 1 /\ \A u \in Writers \ {w} : write'[u] = write[u]
           /\ expects' = [r \in Readers |-> expects'[r]]
           /\ lone' \in BOOLEAN /\ (lone' => \A u \in Writers \ {w} : Idle(u))
           /\ Agreement' /\ ReadersAgree' /\ Progress'
<1>1. /\ write' = [write EXCEPT ![w] = [at |-> 1, ok |-> TRUE]]
      /\ lone' = \A u \in Writers \ {w} : write[u].at = 0
      /\ agreed' = Nothing /\ expects' = [r \in Readers |-> Nothing]
  BY DEF BeginWriting
<1>2. write \in [Writers -> [at : Nat, ok : BOOLEAN]]
  BY DEF DialogInv, DialogType
<1>3. /\ write' \in [Writers -> [at : Nat, ok : BOOLEAN]]
      /\ write'[w].at = 1 /\ \A u \in Writers \ {w} : write'[u] = write[u]
  BY <1>1, <1>2
<1>4. ASSUME NEW u \in Writers PROVE write'[u].at <= LastWrite(u) + 1
  <2>1. CASE u = w
    BY <1>3, <2>1, OrdersHaveLengths
  <2>2. CASE u # w
    BY <1>3, <2>2 DEF DialogInv, DialogType
  <2> QED
    BY <2>1, <2>2
<1>5. lone' \in BOOLEAN /\ (lone' => \A u \in Writers \ {w} : Idle(u))
  BY <1>1 DEF Idle
<1>6. Agreement' /\ ReadersAgree'
  BY <1>1 DEF Agreement, ReadersAgree
<1>7. Progress'
  <2> SUFFICES ASSUME NEW u \in Writers, lone' PROVE Arrived(u)'
    BY DEF Progress
  <2>1. CASE u = w
    BY <1>3, <2>1 DEF Arrived
  <2>2. CASE u # w
    BY <1>3, <1>5, <2>2 DEF Arrived, Idle
  <2> QED
    BY <2>1, <2>2
<1> QED
  BY <1>1, <1>3, <1>4, <1>5, <1>6, <1>7

LEMMA SaveKeeps == ASSUME DialogInv, Save PROVE DialogInv'
<1>1. "save" \in Writers /\ "reset" \in Writers
  BY DEF Writers
<1>2. /\ write' \in [Writers -> [at : Nat, ok : BOOLEAN]]
      /\ \A u \in Writers : write'[u].at <= LastWrite(u) + 1
      /\ write'["save"].at = 1 /\ write'["reset"] = write["reset"]
      /\ expects' = [r \in Readers |-> expects'[r]]
      /\ lone' \in BOOLEAN /\ (lone' => Idle("reset"))
      /\ Agreement' /\ ReadersAgree' /\ Progress'
  BY <1>1, BeginsAgreed DEF Save
<1> USE DEF DialogInv, Save
<1>3. DialogType'
  BY <1>2 DEF DialogType, LastWrite, ReadOrder
<1>4. OneAtATime'
  BY <1>2 DEF OneAtATime, Idle
<1>5. Told' /\ Found'
  BY <1>2 DEF Told, Found, Idle
<1> QED
  BY <1>2, <1>3, <1>4, <1>5

LEMMA BeginResetKeeps == ASSUME DialogInv, BeginReset PROVE DialogInv'
<1>1. "save" \in Writers /\ "reset" \in Writers
  BY DEF Writers
<1>2. /\ write' \in [Writers -> [at : Nat, ok : BOOLEAN]]
      /\ \A u \in Writers : write'[u].at <= LastWrite(u) + 1
      /\ write'["reset"].at = 1 /\ write'["save"] = write["save"]
      /\ expects' = [r \in Readers |-> expects'[r]]
      /\ lone' \in BOOLEAN /\ (lone' => Idle("save"))
      /\ Agreement' /\ ReadersAgree' /\ Progress'
  BY <1>1, BeginsAgreed DEF BeginReset
<1> USE DEF DialogInv, BeginReset
<1>3. DialogType'
  BY <1>2 DEF DialogType, LastWrite, ReadOrder
<1>4. OneAtATime'
  BY <1>2 DEF OneAtATime, Idle
<1>5. Told' /\ Found'
  BY <1>2 DEF Told, Found, BeginWriting
<1> QED
  BY <1>2, <1>3, <1>4, <1>5

\* What a writer writes is a number, and the window's switches are 0 or 1.
LEMMA WrittenIsNumber ==
    ASSUME DialogInv, NEW w \in Writers, NEW v \in Values
    PROVE  Written(w, v) \in Int
<1>1. v[2] \in Sliders \cup Boxes
  BY NamesOfValues, LoggingIsApart
<1>2. controls[v[2]] \in Positioned(v[2])
  BY <1>1 DEF DialogInv, DialogType
<1> QED
  BY <1>1, <1>2, MeantIsTaken, DefaultsAreNumbers DEF Written

\* While somebody writes nothing is agreed.
LEMMA NothingIsAgreed ==
    ASSUME DialogInv, NEW w \in Writers, ~Idle(w)
    PROVE  agreed = Nothing /\ \A r \in Readers : expects[r] = Nothing
BY DEF DialogInv, Agreement, ReadersAgree, Writers

LEMMA WriteNextKeeps ==
    ASSUME DialogInv, NEW w \in Writers, WriteNext(w)
    PROVE  DialogInv'
<1> DEFINE n == write[w].at
           v == SaveOrder[n]
<1>1. PICK worked \in BOOLEAN :
         LET ok == OkAfter(write[w].ok, worked \/ v = Logging)
         IN  /\ registry' = IF worked THEN [registry EXCEPT ![v] = Written(w, v)]
                            ELSE registry
             /\ write' = [write EXCEPT ![w] = [at |-> NextWrite(w, n, ok), ok |-> ok]]
  BY DEF WriteNext
<1> DEFINE ok == OkAfter(write[w].ok, worked \/ v = Logging)
           next == NextWrite(w, n, ok)
<1>2. /\ write \in [Writers -> [at : Nat, ok : BOOLEAN]] /\ n \in Nat
      /\ registry \in [Values -> Int \cup {Absent}]
  BY DEF DialogInv, DialogType
<1>3. n \in 1..LastWrite(w) /\ LastWrite(w) \in Nat /\ LastWrite(w) <= Len(SaveOrder)
  BY OrdersHaveLengths DEF WriteNext
<1>4. v \in Values
  BY <1>3, SaveOrderIsComplete
<1>5. Written(w, v) \in Int
  BY <1>4, WrittenIsNumber
<1>6. ~Idle(w) /\ agreed = Nothing /\ \A r \in Readers : expects[r] = Nothing
  BY <1>3, NothingIsAgreed DEF Idle
<1>7. ok \in BOOLEAN /\ (ok => write[w].ok /\ next = n + 1 /\ (worked \/ v = Logging))
  BY <1>2 DEF OkAfter, NextWrite
<1>8. next \in Nat /\ 1 <= next /\ next <= LastWrite(w) + 1
  BY <1>2, <1>3, <1>7, SaveOrderIsComplete DEF NextWrite, LastWrite
<1>9. /\ UNCHANGED <<dictionary, dialogVars, voice, readVars, agreed, lone>>
  BY DEF WriteNext
<1>10. /\ registry' = IF worked THEN [registry EXCEPT ![v] = Written(w, v)] ELSE registry
       /\ write' = [write EXCEPT ![w] = [at |-> next, ok |-> ok]]
  BY <1>1
<1> HIDE DEF v, ok, next
<1>11. registry' \in [Values -> Int \cup {Absent}]
  BY <1>2, <1>4, <1>5, <1>10
<1>12. /\ write' \in [Writers -> [at : Nat, ok : BOOLEAN]]
       /\ write'[w].at = next /\ write'[w].ok = ok
       /\ \A u \in Writers \ {w} : write'[u] = write[u]
  BY <1>2, <1>7, <1>8, <1>10
<1>13. DialogType'
  <2>1. \A u \in Writers : write'[u].at <= LastWrite(u) + 1
    BY <1>8, <1>12 DEF DialogInv, DialogType
  <2> QED
    BY <1>9, <1>11, <1>12, <2>1
       DEF DialogInv, DialogType, dialogVars, readVars, ReadOrder, LastWrite
<1>14. OneAtATime'
  <2>1. \A u \in Writers : Idle(u)' <=> Idle(u)
    BY <1>6, <1>8, <1>12 DEF Idle
  <2> QED
    BY <1>9, <2>1 DEF DialogInv, OneAtATime, dialogVars, Writers
<1>15. Agreement' /\ ReadersAgree'
  BY <1>6, <1>9 DEF Agreement, ReadersAgree, readVars
<1>16. Progress'
  <2> SUFFICES ASSUME NEW u \in Writers, lone, write'[u].ok PROVE Arrived(u)'
    BY <1>9 DEF Progress
  <2>1. CASE u # w
    <3>1. Idle(u)
      BY <1>6, <2>1 DEF DialogInv, OneAtATime, Writers
    <3> QED
      BY <1>12, <2>1, <3>1 DEF Arrived, Idle
  <2>2. CASE u = w
    <3>1. ok /\ write[w].ok /\ next = n + 1 /\ (worked \/ v = Logging)
      BY <1>7, <1>12, <2>2
    <3>2. Arrived(w)
      BY <2>2, <3>1 DEF DialogInv, Progress
    <3>3. \A z : Written(w, z)' = Written(w, z)
      BY <1>9 DEF Written, dialogVars
    <3>4. ASSUME NEW i \in 1..n, SaveOrder[i] # Logging
          PROVE  registry'[SaveOrder[i]] = Written(w, SaveOrder[i])
      <4>1. SaveOrder[i] \in Values
        BY <1>3, SaveOrderIsComplete
      <4>2. CASE SaveOrder[i] = v
        BY <1>2, <1>4, <1>10, <3>1, <3>4, <4>2
      <4>3. CASE SaveOrder[i] # v
        <5>1. i \in 1..(n - 1)
          BY <1>3, <4>3 DEF v
        <5>2. registry[SaveOrder[i]] = Written(w, SaveOrder[i])
          BY <3>2, <3>4, <5>1 DEF Arrived
        <5> QED
          BY <1>2, <1>10, <4>1, <4>3, <5>2
      <4> QED
        BY <4>2, <4>3
    <3>5. 1..(write'[w].at - 1) = 1..n
      BY <1>3, <1>12, <3>1
    <3> QED
      BY <2>2, <3>3, <3>4, <3>5 DEF Arrived
  <2> QED
    BY <2>1, <2>2
<1>17. Told'
  BY <1>6, <1>9 DEF DialogInv, Told, Tested, dialogVars
<1>18. Found'
  <2> SUFFICES ASSUME found # Nothing PROVE Found'
    BY <1>9 DEF Found, dialogVars
  <2>1. /\ Idle("reset") /\ window \in {"ready", "saving", "told"}
        /\ \A z \in Values \ {Logging} :
              registry[z] = found[z] /\ Meant(z[2], controls[z[2]]) = found[z]
        /\ Taken("Logging", read_dword(registry, Logging)) = controls["Logging"]
        /\ Taken("Logging", read_dword(found, Logging)) = controls["Logging"]
    BY DEF DialogInv, Found
  <2>2. w = "save" /\ Written(w, v) = Meant(v[2], controls[v[2]]) /\ Idle("reset")'
    BY <1>6, <1>12, <2>1 DEF Writers, Written, Idle
  <2>3. \A z \in Values \ {Logging} : registry'[z] = found[z]
    BY <1>2, <1>4, <1>10, <2>1, <2>2
  <2>4. Taken("Logging", read_dword(registry', Logging)) = controls["Logging"]
    <3>1. CASE worked /\ v = Logging
      <4>1. controls["Logging"] \in Positioned("Logging") /\ "Logging" \in Boxes
        BY LoggingIsApart DEF DialogInv, DialogType
      <4>2. registry'[Logging] = Meant("Logging", controls["Logging"])
        BY <1>2, <1>4, <1>10, <2>2, <3>1, LoggingIsApart
      <4>3. read_dword(registry', Logging) = registry'[Logging]
        BY <1>5, <1>11, <4>1, <4>2, LoggingIsApart, ReadGivesNumbers, MeantIsTaken
      <4> QED
        BY <4>1, <4>2, <4>3, MeantIsTaken
    <3>2. CASE ~(worked /\ v = Logging)
      <4>1. registry'[Logging] = registry[Logging]
        BY <1>2, <1>4, <1>10, <3>2, LoggingIsApart
      <4> QED
        BY <2>1, <4>1 DEF read_dword
    <3> QED
      BY <3>1, <3>2
  <2> QED
    BY <1>9, <2>1, <2>2, <2>3, <2>4 DEF Found, dialogVars
<1> QED
  BY <1>13, <1>14, <1>15, <1>16, <1>17, <1>18 DEF DialogInv

\* A lone writer that is through, and whose writes have all worked, has left
\* the registry as it meant to.
LEMMA ThroughMeansArrived ==
    ASSUME DialogInv, NEW w \in Writers, write[w].at = LastWrite(w) + 1,
           write[w].ok, lone
    PROVE  /\ \A v \in Values \ {Logging} : registry[v] = Written(w, v)
           /\ \A u \in Writers \ {w} : Idle(u)
<1>1. LastWrite(w) \in Nat /\ LastWrite(w) >= Len(SaveOrder) - 1 /\ Len(SaveOrder) \in Nat \ {0}
  BY SaveOrderIsComplete, OrdersHaveLengths DEF LastWrite
<1>2. Arrived(w)
  BY DEF DialogInv, Progress
<1>3. ASSUME NEW v \in Values \ {Logging} PROVE registry[v] = Written(w, v)
  <2>1. PICK i \in 1..(Len(SaveOrder) - 1) : SaveOrder[i] = v
    BY SaveOrderIsComplete DEF Covers
  <2>2. i \in 1..(write[w].at - 1)
    BY <1>1
  <2> QED
    BY <1>2, <2>1, <2>2 DEF Arrived
<1>4. \A u \in Writers \ {w} : Idle(u)
  BY <1>1 DEF DialogInv, OneAtATime, Idle, Writers
<1> QED
  BY <1>3, <1>4

LEMMA EndsAgreed ==
    ASSUME DialogInv, NEW w \in Writers, NEW numbers, DoneWriting(w, numbers),
           UNCHANGED <<registry, lone, voice, readVars>>,
           w = "save" => numbers = Tested
    PROVE  /\ write' \in [Writers -> [at : Nat, ok : BOOLEAN]]
           /\ \A u \in Writers : write'[u].at <= LastWrite(u) + 1
           /\ write'[w].at = 0 /\ \A u \in Writers \ {w} : write'[u] = write[u]
           /\ Agreement' /\ ReadersAgree'
           /\ agreed' # Nothing => agreed' = [by |-> w, numbers |-> numbers]
<1>1. /\ write[w].at = LastWrite(w) + 1
      /\ write' = [write EXCEPT ![w] = [at |-> 0, ok |-> TRUE]]
      /\ agreed' = IF write[w].ok /\ lone THEN [by |-> w, numbers |-> numbers] ELSE Nothing
  BY DEF DoneWriting
<1>2. write \in [Writers -> [at : Nat, ok : BOOLEAN]]
  BY DEF DialogInv, DialogType
<1>3. /\ write' \in [Writers -> [at : Nat, ok : BOOLEAN]]
      /\ write'[w].at = 0 /\ \A u \in Writers \ {w} : write'[u] = write[u]
  BY <1>1, <1>2
<1>4. ASSUME NEW u \in Writers PROVE write'[u].at <= LastWrite(u) + 1
  <2>1. CASE u = w
    BY <1>3, <2>1, OrdersHaveLengths
  <2>2. CASE u # w
    BY <1>3, <2>2 DEF DialogInv, DialogType
  <2> QED
    BY <2>1, <2>2
<1>5. ReadersAgree'
  <2>1. ~Idle(w)
    BY <1>1, OrdersHaveLengths DEF Idle
  <2> QED
    BY <2>1, NothingIsAgreed DEF ReadersAgree, readVars
<1>6. Agreement'
  <2> SUFFICES ASSUME agreed' # Nothing
               PROVE  Idle("save")' /\ Idle("reset")' /\ Kept(agreed', registry)
    BY DEF Agreement
  <2>1. write[w].ok /\ lone /\ agreed' = [by |-> w, numbers |-> numbers]
    BY <1>1
  <2>2. /\ \A v \in Values \ {Logging} : registry[v] = Written(w, v)
        /\ \A u \in Writers \ {w} : Idle(u)
    BY <1>1, <2>1, ThroughMeansArrived
  <2>3. Idle("save")' /\ Idle("reset")'
    BY <1>3, <2>2 DEF Idle, Writers
  <2>4. CASE w = "reset"
    <3>1. \A v \in Values \ {Logging} : registry[v] = Default[v[2]]
      BY <2>2, <2>4 DEF Written
    <3> QED
      BY <2>1, <2>3, <2>4, <3>1 DEF Kept
  <2>5. CASE w = "save"
    <3>1. agreed'.by = "save" /\ agreed'.numbers = Tested
      BY <2>1, <2>5
    <3>2. \A c \in Sliders \cup Boxes :
             Tested[c] = Meant(c, controls[c]) /\ controls[c] \in Positioned(c)
      BY DEF Tested, DialogInv, DialogType
    <3>3. ASSUME NEW v \in Values \ {Logging} PROVE registry[v] = Tested[v[2]]
      <4>1. v[2] \in Sliders \cup Boxes /\ Written(w, v) = Meant(v[2], controls[v[2]])
        BY <2>5, NamesOfValues DEF Written
      <4> QED
        BY <2>2, <3>2, <4>1
    <3> HIDE DEF Tested
    <3> QED
      BY <2>3, <3>1, <3>2, <3>3 DEF Kept
  <2> QED
    BY <2>4, <2>5 DEF Writers
<1> QED
  BY <1>1, <1>3, <1>4, <1>5, <1>6

LEMMA AnnounceKeeps == ASSUME DialogInv, Announce PROVE DialogInv'
<1>1. "save" \in Writers /\ "reset" \in Writers
  BY DEF Writers
<1>2. /\ window = "saving" /\ window' = "told" /\ DoneWriting("save", Tested)
      /\ UNCHANGED <<registry, controls, found, voice, readVars, lone, left>>
      /\ dictionary' \in {dictionary, controls["UserDict"]}
      /\ said'.dictionary => dictionary' = controls["UserDict"]
  BY DEF Announce
<1>3. /\ write' \in [Writers -> [at : Nat, ok : BOOLEAN]]
      /\ \A u \in Writers : write'[u].at <= LastWrite(u) + 1
      /\ write'["save"].at = 0 /\ write'["reset"] = write["reset"]
      /\ Agreement' /\ ReadersAgree'
      /\ agreed' # Nothing => agreed' = [by |-> "save", numbers |-> Tested]
  BY <1>1, <1>2, EndsAgreed
<1>4. controls["UserDict"] \in {0, 1}
  <2>1. "UserDict" \in Boxes
    BY DEF Boxes
  <2> QED
    BY <2>1 DEF DialogInv, DialogType, Positioned
<1> USE DEF DialogInv
<1>5. DialogType'
  BY <1>2, <1>3, <1>4 DEF DialogType, LastWrite, ReadOrder, readVars
<1>6. OneAtATime'
  BY <1>2, <1>3 DEF OneAtATime, Idle
<1>7. Progress'
  <2>1. Arrived("save")'
    BY <1>3 DEF Arrived
  <2>2. lone /\ write["reset"].ok => Arrived("reset")'
    BY <1>2, <1>3 DEF Progress, Arrived, Written, Writers
  <2> QED
    BY <1>2, <1>3, <2>1, <2>2 DEF Progress, Writers
<1>8. Told'
  <2>1. Tested' = Tested
    BY <1>2 DEF Tested
  <2> HIDE DEF Tested
  <2> QED
    BY <1>2, <1>3, <2>1 DEF Told
<1>9. Found'
  BY <1>2, <1>3 DEF Found, Idle
<1> QED
  BY <1>3, <1>5, <1>6, <1>7, <1>8, <1>9

LEMMA EndResetKeeps == ASSUME DialogInv, EndReset PROVE DialogInv'
<1>1. "save" \in Writers /\ "reset" \in Writers
  BY DEF Writers
<1>2. /\ DoneWriting("reset", Nothing)
      /\ UNCHANGED <<registry, dictionary, dialogVars, voice, readVars, lone, left>>
  BY DEF EndReset
<1>3. /\ write' \in [Writers -> [at : Nat, ok : BOOLEAN]]
      /\ \A u \in Writers : write'[u].at <= LastWrite(u) + 1
      /\ write'["reset"].at = 0 /\ write'["save"] = write["save"]
      /\ Agreement' /\ ReadersAgree'
      /\ agreed' # Nothing => agreed'.by = "reset"
  BY <1>1, <1>2, EndsAgreed
<1> USE DEF DialogInv
<1>4. DialogType'
  BY <1>2, <1>3 DEF DialogType, LastWrite, ReadOrder, readVars, dialogVars
<1>5. OneAtATime'
  BY <1>2, <1>3 DEF OneAtATime, Idle, dialogVars
<1>6. Progress'
  <2>1. Arrived("reset")'
    BY <1>3 DEF Arrived
  <2>2. lone /\ write["save"].ok => Arrived("save")'
    BY <1>2, <1>3 DEF Progress, Arrived, Written, Writers, dialogVars
  <2> QED
    BY <1>2, <1>3, <2>1, <2>2 DEF Progress, Writers
<1>7. Told' /\ Found'
  BY <1>2, <1>3 DEF Told, Found, Idle, dialogVars
<1> QED
  BY <1>3, <1>4, <1>5, <1>6, <1>7

-----------------------------------------------------------------------------
LEMMA StutteringKeeps == ASSUME DialogInv, UNCHANGED vars PROVE DialogInv'
<1>1. /\ UNCHANGED <<registry, dictionary, dialogVars, writeVars>>
      /\ UNCHANGED <<at, got, expects, voice>>
  BY DEF vars, readVars
<1>2. OneAtATime' /\ Agreement' /\ Progress' /\ Told' /\ Found'
  BY <1>1, ReadingIsQuiet
<1>3. DialogType' /\ ReadersAgree'
  BY <1>1 DEF DialogInv, DialogType, ReadersAgree, ReadOrder, LastWrite, dialogVars,
              writeVars
<1> QED
  BY <1>2, <1>3 DEF DialogInv

LEMMA DialogStep == DialogInv /\ [Next]_vars => DialogInv'
<1> SUFFICES ASSUME DialogInv, [Next]_vars PROVE DialogInv'
  OBVIOUS
<1>1. CASE Window
  <2>1. "window" \in Readers /\ "save" \in Writers
    BY OrdersHaveLengths DEF Writers
  <2> QED
    BY <1>1, <2>1, OpenKeeps, ReadNextKeeps, LoadKeeps, MoveKeeps, ResetToDefaultsKeeps,
       CopyFromPresetKeeps, SaveKeeps, WriteNextKeeps, AnnounceKeeps, DismissKeeps,
       CloseKeeps
       DEF Window
<1>2. CASE Reset
  <2>1. "reset" \in Writers
    BY DEF Writers
  <2> QED
    BY <1>2, <2>1, BeginResetKeeps, WriteNextKeeps, EndResetKeeps DEF Reset
<1>3. CASE \E h \in Hosts : Host(h)
  BY <1>3, HostKeeps
<1>4. CASE UNCHANGED vars
  BY <1>4, StutteringKeeps
<1> QED
  BY <1>1, <1>2, <1>3, <1>4 DEF Next

LEMMA DialogAlways == Spec => []DialogInv
BY DialogStarts, DialogStep, PTL DEF Spec

-----------------------------------------------------------------------------
(* What follows from the invariant.                                        *)

LEMMA SpokenInRange ==
    ASSUME DialogInv, NEW h \in Hosts
    PROVE  /\ \A name \in Sliders : Spoken(h)[name] \in Least[name]..Most[name]
           /\ \A name \in Range(Switches) : Spoken(h)[name] \in {0, 1}
<1>1. got[h] \in [Values -> Int] /\ voice[h] \in DOMAIN PRESETS \cup {"custom"}
  BY OrdersHaveLengths DEF DialogInv, DialogType
<1>2. ASSUME NEW name \in Sliders PROVE Spoken(h)[name] \in Least[name]..Most[name]
  <2>1. name \in Numbers \cup Multipliers
    BY DEF Sliders
  <2>2. InLimits(name, build_params(VoiceOf(h), Loaded(GLOBAL_KEY, got[h]))[name])
    BY <1>1, <2>1, NumbersStayOnScale DEF VoiceOf
  <2>3. Least[name] \in Int /\ Most[name] \in Int
    BY <2>1, LimitsAreOrdered
  <2> QED
    BY <2>2, <2>3 DEF Spoken, InLimits
<1>3. ASSUME NEW name \in Range(Switches) PROVE Spoken(h)[name] \in {0, 1}
  <2>1. /\ name \notin Multipliers /\ name \notin Range(Scales) /\ name \notin Range(Pauses)
    BY NamesOfNumbers, NamesOfSwitches DEF Multipliers, Numbers
  <2> QED
    BY <2>1 DEF Spoken, build_params
<1> QED
  BY <1>2, <1>3

\* Every variable keeps its range, and what reaches the engine and the audio
\* path is on its scale: for every registry a hand can have edited, every
\* order of reads, writes and failures, and any number of voices.
THEOREM DialogTypeOK == Spec => []TypeOK
<1>1. DialogInv => TypeOK
  <2> SUFFICES ASSUME DialogInv PROVE TypeOK
    OBVIOUS
  <2> USE DEF DialogInv, DialogType
  <2>1. controls \in [Sliders \cup Boxes -> 0..100] /\ \A c \in Boxes : controls[c] \in {0, 1}
    <3>1. \A c \in Boxes : controls[c] \in {0, 1}
      BY DEF Positioned
    <3>2. ASSUME NEW c \in Sliders \cup Boxes PROVE controls[c] \in 0..100
      <4>1. controls[c] \in Positioned(c)
        OBVIOUS
      <4>2. Positioned(c) \subseteq 0..100
        BY DEF Positioned
      <4> QED
        BY <4>1, <4>2
    <3>3. controls = [c \in Sliders \cup Boxes |-> controls[c]]
      OBVIOUS
    <3> QED
      BY <3>1, <3>2, <3>3
  <2>2. at \in [Readers -> 0..(Len(SaveOrder) + 1)]
    <3>1. Len(SaveOrder) \in Nat
      BY SaveOrderIsComplete
    <3>2. \A r \in Readers : Len(ReadOrder(r)) \in 0..Len(SaveOrder)
      BY ReadOrderIsComplete
    <3> QED
      BY <3>1, <3>2
  <2>3. \A w \in Writers : write[w].at \in 0..(LastWrite(w) + 1)
    BY OrdersHaveLengths
  <2> QED
    BY <2>1, <2>2, <2>3, SpokenInRange DEF TypeOK
<1> QED
  BY <1>1, DialogAlways, PTL

AgreedOn(name) == IF agreed.by = "save" THEN agreed.numbers[name] ELSE Default[name]

\* What an utterance begun after an agreement has made of the values.
LEMMA SpokenAsAgreed ==
    ASSUME DialogInv, NEW h \in Hosts, HasRead(h), expects[h] # Nothing
    PROVE  /\ expects[h] = agreed /\ agreed # Nothing /\ Kept(agreed, registry)
           /\ \A name \in SharedNames : Loaded(GLOBAL_KEY, got[h])[name] = AgreedOn(name)
           /\ voice[h] = "custom"
                 => \A name \in OwnNames : VoiceOf(h)[name] = AgreedOn(name)
           /\ voice[h] # "custom" => VoiceOf(h) = preset_params(voice[h])
<1>1. h \in Readers /\ h # "window"
  BY OrdersHaveLengths
<1>2. expects[h] = agreed /\ agreed # Nothing /\ Kept(agreed, registry)
  BY <1>1 DEF DialogInv, ReadersAgree, Agreement
<1>3. \A v \in Values \ {Logging} : Taken(v[2], read_dword(registry, v)) = AgreedOn(v[2])
  <2>1. registry \in [Values -> Int \cup {Absent}]
    BY DEF DialogInv, DialogType
  <2> QED
    BY <1>2, <2>1, KeptIsRead DEF AgreedOn
<1>4. ASSUME NEW name \in SharedNames
      PROVE  Loaded(GLOBAL_KEY, got[h])[name] = AgreedOn(name)
  <2> DEFINE v == <<GLOBAL_KEY, name>>
  <2>1. v \in Values \ {Logging} /\ \E i \in 1..Len(ReadOrder(h)) : ReadOrder(h)[i] = v
    BY KeysAreComplete, LoggingIsApart, ReadOrderIsComplete DEF Covers
  <2>2. Loaded(GLOBAL_KEY, got[h])[name] = Taken(name, read_dword(registry, v))
    BY <1>1, <2>1, LoadedAsAgreed
  <2> QED
    BY <1>3, <2>1, <2>2
<1>5. ASSUME voice[h] = "custom", NEW name \in OwnNames
      PROVE  VoiceOf(h)[name] = AgreedOn(name)
  <2> DEFINE v == <<CUSTOM_KEY, name>>
  <2>1. v \in Values \ {Logging}
    BY KeysAreComplete, LoggingIsApart
  <2>2. \E i \in 1..Len(ReadOrder(h)) : ReadOrder(h)[i] = v
    BY <1>1, <1>5, <2>1, ReadOrderIsComplete DEF Covers
  <2>3. Loaded(CUSTOM_KEY, got[h])[name] = Taken(name, read_dword(registry, v))
    BY <1>1, <2>1, <2>2, LoadedAsAgreed
  <2> QED
    BY <1>3, <1>5, <2>1, <2>3 DEF VoiceOf
<1> QED
  BY <1>2, <1>4, <1>5 DEF VoiceOf

\* What build_params combines, name by name.
LEMMA Combined ==
    ASSUME NEW speaks, NEW user
    PROVE  LET spoken == build_params(speaks, user)
           IN  /\ DOMAIN spoken = OwnNames \cup Multipliers
               /\ \A name \in Multipliers : spoken[name] = user[name]
               /\ \A name \in Range(Scales) : spoken[name] = speaks[name]
               /\ \A name \in Range(Pauses) :
                     spoken[name] = IF user["OverridePauses"] = 1 THEN user[name]
                                    ELSE speaks[name]
               /\ \A name \in Range(Switches) :
                     spoken[name] = IF speaks[name] = 1 \/ user[name] = 1 THEN 1 ELSE 0
<1>1. /\ Range(Scales) \cap Multipliers = {} /\ Range(Pauses) \cap Multipliers = {}
      /\ Range(Switches) \cap (Numbers \cup Multipliers) = {}
      /\ Range(Scales) \cap Range(Pauses) = {}
  BY NamesAreApart DEF Numbers
<1> QED
  BY <1>1 DEF build_params, OwnNames, Numbers

\* "They take effect on the next thing any program speaks": an utterance that
\* begins after a save that succeeded, and before anything else is written,
\* is spoken with what the window meant, by the Custom Voice with all of it
\* and by a preset with what is for every voice.
THEOREM SavedIsSpoken == Spec => []SpeaksAsSaved
<1>1. DialogInv => SpeaksAsSaved
  <2> SUFFICES ASSUME DialogInv, NEW h \in Hosts, HasRead(h), expects[h] # Nothing,
                      expects[h].by = "save", NEW name \in DOMAIN Spoken(h)
               PROVE  Spoken(h)[name] =
                       IF voice[h] = "custom" \/ name \in Multipliers \cup Range(Switches)
                       THEN expects[h].numbers[name]
                       ELSE IF name \in Range(Pauses) /\ expects[h].numbers["OverridePauses"] = 1
                       THEN expects[h].numbers[name]
                       ELSE preset_params(voice[h])[name]
    BY DEF SpeaksAsSaved
  <2> DEFINE saved == agreed.numbers
             user == Loaded(GLOBAL_KEY, got[h])
             speaks == VoiceOf(h)
             spoken == Spoken(h)
  <2>1. /\ expects[h] = agreed /\ agreed.by = "save" /\ Kept(agreed, registry)
        /\ \A n \in SharedNames : user[n] = saved[n]
        /\ voice[h] = "custom" => \A n \in OwnNames : speaks[n] = saved[n]
        /\ voice[h] # "custom" => speaks = preset_params(voice[h])
    BY SpokenAsAgreed DEF AgreedOn
  <2>2. \A n \in Range(Switches) : saved[n] \in {0, 1}
    <3> SUFFICES ASSUME NEW n \in Range(Switches) PROVE saved[n] \in {0, 1}
      OBVIOUS
    <3>1. n \in Boxes
      BY DEF Boxes
    <3>2. PICK q \in Positioned(n) : saved[n] = Meant(n, q)
      BY <2>1, <3>1 DEF Kept
    <3> QED
      BY <3>1, <3>2, MeantIsTaken
  <2>3. spoken = build_params(speaks, user)
    BY DEF Spoken
  <2> HIDE DEF saved, user, speaks, spoken
  <2>4. /\ DOMAIN spoken = OwnNames \cup Multipliers
        /\ \A n \in Multipliers : spoken[n] = user[n]
        /\ \A n \in Range(Scales) : spoken[n] = speaks[n]
        /\ \A n \in Range(Pauses) :
              spoken[n] = IF user["OverridePauses"] = 1 THEN user[n] ELSE speaks[n]
        /\ \A n \in Range(Switches) :
              spoken[n] = IF speaks[n] = 1 \/ user[n] = 1 THEN 1 ELSE 0
    BY <2>3, Combined
  <2>5. /\ Multipliers \cup {"OverridePauses"} \cup Range(Pauses) \cup Range(Switches)
               \subseteq SharedNames
        /\ Range(Scales) \cup Range(Pauses) \cup Range(Switches) = OwnNames
    BY DEF SharedNames, OwnNames, Numbers
  <2>6. /\ Range(Scales) \cap (Multipliers \cup Range(Switches) \cup Range(Pauses)) = {}
        /\ Range(Pauses) \cap (Multipliers \cup Range(Switches)) = {}
    BY NamesAreApart
  <2>7. name \in OwnNames \cup Multipliers
    BY <2>4 DEF spoken
  <2>8. CASE name \in Multipliers
    BY <2>1, <2>4, <2>5, <2>8 DEF spoken, saved
  <2>9. CASE name \in Range(Scales)
    BY <2>1, <2>4, <2>5, <2>6, <2>9 DEF spoken, saved
  <2>10. CASE name \in Range(Pauses)
    BY <2>1, <2>4, <2>5, <2>6, <2>10 DEF spoken, saved
  <2>11. CASE name \in Range(Switches)
    <3>1. user[name] = saved[name] /\ saved[name] \in {0, 1}
      BY <2>1, <2>2, <2>5, <2>11
    <3>2. speaks[name] \in {0, saved[name]}
      <4>1. CASE voice[h] = "custom"
        BY <2>1, <2>5, <2>11, <4>1
      <4>2. CASE voice[h] # "custom"
        <5>1. preset_params(voice[h])[name] = 0
          BY <2>6, <2>11 DEF preset_params
        <5> QED
          BY <2>1, <4>2, <5>1
      <4> QED
        BY <4>1, <4>2
    <3>3. spoken[name] = saved[name]
      BY <2>4, <2>11, <3>1, <3>2
    <3> QED
      BY <2>1, <2>11, <3>3 DEF spoken, saved
  <2> QED
    BY <2>5, <2>7, <2>8, <2>9, <2>10, <2>11
<1> QED
  BY <1>1, DialogAlways, PTL

\* /reset "puts everything back": what is spoken next is spoken by the Custom
\* Voice as the engine was shipped, and by a preset as if nothing had ever
\* been set.
THEOREM ResetIsSpoken == Spec => []ResetSpeaksAsShipped
<1>1. DialogInv => ResetSpeaksAsShipped
  <2> SUFFICES ASSUME DialogInv, NEW h \in Hosts, HasRead(h), expects[h] # Nothing,
                      expects[h].by = "reset", NEW name \in DOMAIN Spoken(h)
               PROVE  Spoken(h)[name] =
                       IF voice[h] = "custom" \/ name \notin Numbers THEN Default[name]
                       ELSE preset_params(voice[h])[name]
    BY DEF ResetSpeaksAsShipped
  <2> DEFINE user == Loaded(GLOBAL_KEY, got[h])
             speaks == VoiceOf(h)
             spoken == Spoken(h)
  <2>1. /\ \A n \in SharedNames : user[n] = Default[n]
        /\ voice[h] = "custom" => \A n \in OwnNames : speaks[n] = Default[n]
        /\ voice[h] # "custom" => speaks = preset_params(voice[h])
    BY SpokenAsAgreed DEF AgreedOn
  <2>2. spoken = build_params(speaks, user)
    BY DEF Spoken
  <2> HIDE DEF user, speaks, spoken
  <2>3. /\ DOMAIN spoken = OwnNames \cup Multipliers
        /\ \A n \in Multipliers : spoken[n] = user[n]
        /\ \A n \in Range(Scales) : spoken[n] = speaks[n]
        /\ \A n \in Range(Pauses) :
              spoken[n] = IF user["OverridePauses"] = 1 THEN user[n] ELSE speaks[n]
        /\ \A n \in Range(Switches) :
              spoken[n] = IF speaks[n] = 1 \/ user[n] = 1 THEN 1 ELSE 0
    BY <2>2, Combined
  <2>4. /\ Multipliers \cup {"OverridePauses"} \cup Range(Pauses) \cup Range(Switches)
               \subseteq SharedNames
        /\ Range(Scales) \cup Range(Pauses) \cup Range(Switches) = OwnNames
    BY DEF SharedNames, OwnNames, Numbers
  <2>5. /\ (Multipliers \cup Range(Switches)) \cap Numbers = {}
        /\ Range(Switches) \cap Sliders = {} /\ Range(Scales) \cup Range(Pauses) = Numbers
        /\ Range(Scales) \cap Range(Pauses) = {}
    BY NamesAreApart DEF Numbers, Sliders
  <2>6. name \in OwnNames \cup Multipliers
    BY <2>3 DEF spoken
  <2>7. user["OverridePauses"] = 0
    BY <2>1, <2>4 DEF Default
  <2>8. CASE name \in Multipliers
    BY <2>1, <2>3, <2>4, <2>5, <2>8 DEF spoken
  <2>9. CASE name \in Numbers
    <3>1. spoken[name] = speaks[name]
      BY <2>3, <2>5, <2>7, <2>9
    <3> QED
      BY <2>1, <2>4, <2>5, <2>9, <3>1 DEF spoken
  <2>10. CASE name \in Range(Switches)
    <3>1. Default[name] = 0 /\ user[name] = 0
      BY <2>1, <2>4, <2>5, <2>10, DefaultIsTaken
    <3>2. speaks[name] = 0
      <4>1. CASE voice[h] = "custom"
        BY <2>1, <2>4, <2>10, <3>1, <4>1
      <4>2. CASE voice[h] # "custom"
        BY <2>1, <2>5, <2>10, <4>2 DEF preset_params
      <4> QED
        BY <4>1, <4>2
    <3> QED
      BY <2>3, <2>5, <2>10, <3>1, <3>2 DEF spoken
  <2> QED
    BY <2>4, <2>5, <2>6, <2>8, <2>9, <2>10
<1> QED
  BY <1>1, DialogAlways, PTL

\* While "Settings saved" is shown, and unless somebody else writes, the
\* values are what the window means and so is the switch for the dictionary.
THEOREM SavedIsSaved == Spec => []SavedMeansSaved
<1>1. DialogInv => SavedMeansSaved
  <2> SUFFICES ASSUME DialogInv, window = "told", agreed # Nothing, agreed.by = "save"
               PROVE  /\ \A v \in Values \ {Logging} :
                            registry[v] = Meant(v[2], controls[v[2]])
                      /\ said.dictionary => dictionary = controls["UserDict"]
    BY DEF SavedMeansSaved
  <2>1. /\ agreed.numbers = Tested /\ Kept(agreed, registry)
        /\ said.dictionary => dictionary = controls["UserDict"]
    BY DEF DialogInv, Told, Agreement
  <2>2. ASSUME NEW v \in Values \ {Logging}
        PROVE  registry[v] = Meant(v[2], controls[v[2]])
    <3>1. registry[v] = agreed.numbers[v[2]] /\ v[2] \in Sliders \cup Boxes
      BY <2>1, NamesOfValues DEF Kept
    <3> QED
      BY <2>1, <3>1 DEF Tested
  <2> QED
    BY <2>1, <2>2
<1> QED
  BY <1>1, DialogAlways, PTL

\* However often the window is opened on what was saved and saves again, the
\* values stay what they were.
THEOREM NothingDrifts == Spec => []NoDrift
<1>1. DialogInv => NoDrift
  BY DEF DialogInv, Found, NoDrift
<1> QED
  BY <1>1, DialogAlways, PTL

=============================================================================
