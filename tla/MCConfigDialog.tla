--------------------------- MODULE MCConfigDialog ---------------------------
(* ConfigDialog with two of the scales, one pause and one switch.  The tables *)
(* are 25 * 4^(s/50) to the nearest whole number, and its inverse.            *)
EXTENDS ConfigDialog, FiniteSets, TLC

CONSTANT h1

MCHosts == {h1}
MCScales == <<"Speed">>
MCPauses == <<"Pause1">>
MCSwitches == <<"HonourTags">>
MCTokens == {"custom", "brisk", "unknown"}
MCPositions == {33}

RateList ==
    <<25, 26, 26, 27, 28, 29, 30, 30, 31, 32, 33, 34, 35, 36, 37, 38, 39, 40, 41, 42,
      44, 45, 46, 47, 49, 50, 51, 53, 54, 56, 57, 59, 61, 62, 64, 66, 68, 70, 72, 74,
      76, 78, 80, 82, 85, 87, 90, 92, 95, 97, 100, 103, 106, 109, 112, 115, 118, 121,
      125, 128, 132, 136, 139, 143, 147, 152, 156, 160, 165, 169, 174, 179, 184, 189,
      195, 200, 206, 211, 217, 223, 230, 236, 243, 250, 257, 264, 271, 279, 287, 295,
      303, 312, 320, 329, 339, 348, 358, 368, 378, 389, 400>>

\* The least percentage shown at each position from 1 on.
ShownFrom ==
    <<26, 27, 27, 28, 29, 30, 30, 31, 32, 33, 34, 35, 36, 37, 38, 39, 40, 41, 42, 43,
      45, 46, 47, 48, 50, 51, 53, 54, 56, 57, 59, 60, 62, 64, 66, 67, 69, 71, 73, 75,
      77, 80, 82, 84, 86, 89, 91, 94, 96, 99, 102, 105, 108, 111, 114, 117, 120, 124,
      127, 131, 134, 138, 142, 146, 150, 154, 159, 163, 168, 172, 177, 182, 187, 192,
      198, 203, 209, 215, 221, 227, 233, 240, 247, 254, 261, 268, 276, 283, 291, 299,
      308, 317, 325, 335, 344, 354, 364, 374, 384, 395>>

MCRateOfSlider == [s \in 0..100 |-> RateList[s + 1]]
MCSliderOfRate ==
    [r \in 25..400 |-> Cardinality({s \in 1..100 : ShownFrom[s] <= r})]

\* A registry with values that are missing, below and above their ranges.
Edited ==
    [v \in Values |->
        IF v[2] = "Speed" THEN 250
        ELSE IF v[2] = "VolumePercent" THEN -1
        ELSE IF v = <<CUSTOM_KEY, "Pause1">> THEN 2147483647
        ELSE IF v = <<GLOBAL_KEY, "HonourTags">> THEN 7 ELSE Absent]
MCHandEdited == {Edited}

=============================================================================
