\* The four keys of the committee with the tables as they are.
SPECIFICATION KeysSpec
INVARIANT OnCurve
CHECK_DEADLOCK FALSE
