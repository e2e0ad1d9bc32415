--------------------------- MODULE MCCrankDecoder ---------------------------
EXTENDS CrankDecoder

Quarters == {16384, 32768, 49152}

\* Twelve teeth with the sixth missing, twelve with the fifth and sixth missing, and sixteen of which two are.
Twelve1 == <<0, 5461, 10923, 16384, 21845, 32768, 38229, 43691, 49152, 54613, 60075>>
Twelve2 == <<0, 5461, 10923, 16384, 32768, 38229, 43691, 49152, 54613, 60075>>
Sixteen2 == <<0, 4096, 8192, 12288, 16384, 20480, 24576, 28672, 32768, 36864, 49152, 53248, 57344, 61440>>

Calibration(table, trigger, repeats, speeds, crank, cam) ==
    [table |-> table, trigger |-> trigger, phaseRepeats |-> repeats, syncPoints |-> Quarters, sampleTooth |-> 7,
     speeds |-> speeds, crankErrors |-> crank, camErrors |-> cam]

MCCalibrations == {
    Calibration(Twelve1, "OneGroupMissing", 1, {4, 5}, 1, 0),
    Calibration(Twelve1, "OneGroupMissing", 2, {4}, 0, 4),
    Calibration(Twelve2, "OneGroupMissing", 2, {4}, 1, 0),
    Calibration(Sixteen2, "Toyota2NFE", 2, {4}, 1, 0)}
=============================================================================
