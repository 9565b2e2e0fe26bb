SPECIFICATION FairSpec
CONSTANTS
  Watcher = {w1}
  MaxEvents = 1
  Capacity = 2
PROPERTIES
  StreamCloses
