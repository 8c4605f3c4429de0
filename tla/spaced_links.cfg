SPECIFICATION SafeSpec
CONSTANTS
  Apps = {"ReverseWeblinkGraph"}
  nr_mapper = 2
  nr_reducer = 2
  Lines <- SpacedLines
  MaxRecords = 2
  MaxLength = 4
  MaxCrashes = 0
INVARIANTS
  OutputIsReference
\* The job ends.
CHECK_DEADLOCK FALSE
