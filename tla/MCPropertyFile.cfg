\* a value containing '=' in the test-plan property file.
CONSTANTS
    Keys <- MCKeys
    Values <- MCValues
SPECIFICATION Spec
INVARIANT ValuesReadAsWritten
\* Reading ends with the file validated or an error: no further step.
CHECK_DEADLOCK FALSE
