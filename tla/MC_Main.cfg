CONSTANTS
    Names = {n1, n2}
SPECIFICATION Spec
INVARIANT GenKeyExitLeavesKeys
INVARIANT GenKeyFailureLeavesNoPartialFile
INVARIANT ServerKeyAsConfigured
CHECK_DEADLOCK FALSE
