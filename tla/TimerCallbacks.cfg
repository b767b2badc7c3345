SPECIFICATION FairSpec
CONSTANTS
  Callbacks = {poll, trace}
  MaxEntries = 3
INVARIANTS TypeOK EntryStays
PROPERTIES CalledAsAsked PeriodicCalled UnwantedFreed
