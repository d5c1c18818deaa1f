\* The REST result of a script.
SPECIFICATION Spec
CONSTANT Devices = {d1, d2}
PROPERTY TimeoutMeansNoSuccess
CHECK_DEADLOCK FALSE
