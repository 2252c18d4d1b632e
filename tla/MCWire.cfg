\* A message that was delivered, refused or could not be read stays so: no deadlock check.
CONSTANTS
    Objects <- MCObjects
    Strange <- MCStrange

SPECIFICATION Spec

INVARIANTS
    WireAgreesWithJSON
    DeliveredCanBePassedOn
    OlderCopyReadsTheRest

CHECK_DEADLOCK FALSE
