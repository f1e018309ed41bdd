SPECIFICATION Spec
CONSTANTS
  daemon = daemon
  monitor = monitor
  Engine = {daemon}
  Reading <- OneEach
  Thresholds <- SmallThresholds
  Cooldown = 2
PROPERTIES CooldownAfterAction
