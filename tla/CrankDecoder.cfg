CONSTANT Calibrations <- MCCalibrations
SPECIFICATION Spec
INVARIANTS Locked PhaseRight SequencesInPlace StartsInStep ToothRight
PROPERTY SequencesGoOn
