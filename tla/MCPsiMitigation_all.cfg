SPECIFICATION FairSpec
CONSTANTS
  daemon = daemon
  monitor = monitor
  Engine = {daemon, monitor}
  Reading <- AllReadings
  Thresholds <- SmallThresholds
  Cooldown = 2
INVARIANTS TypeOK CooldownIsOwn CooldownHasCause
PROPERTIES GravestTier DecisionsAreSpaced CriticalIsMet
