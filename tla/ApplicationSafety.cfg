SPECIFICATION Spec
CONSTANTS
  MaxVersion = 2
  Limits <- MCHazards
CHECK_DEADLOCK FALSE
INVARIANTS
  TypeOK ServedUnlessRushed NoTrafficToRemoved ApprovedUnlessInterrupted
  ProvenanceAtomic
PROPERTY LastHealthyKept
