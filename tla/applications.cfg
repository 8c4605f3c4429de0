SPECIFICATION SafeSpec
CONSTANTS
  Apps = {"WordCounter", "InvertedIndex", "ReverseWeblinkGraph"}
  nr_mapper = 2
  nr_reducer = 2
  Lines <- AppLines
  MaxRecords = 2
  MaxLength = 3
  MaxCrashes = 1
INVARIANTS
  TypeOK
  OutputIsReference
  NoReducerThrows
\* The job ends.
CHECK_DEADLOCK FALSE
