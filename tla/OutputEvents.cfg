CONSTANT Kinds <- MCKinds
SPECIFICATION MCSpec
INVARIANT EndAheadIfOrderly
PROPERTIES DisabledLow OutputFalls
