SPECIFICATION FairSpec
CONSTANTS
  Processes = {replicator}
  Replicator = replicator
  MassifLeaves = 2
  MaxLeaves = 4
INVARIANTS
  IntactIsServed
  ServesWhatItReplaced
PROPERTY Repaired
CHECK_DEADLOCK FALSE
