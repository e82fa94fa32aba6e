\* Two dead torrents before a live one, and one slot.
SPECIFICATION SlotsFairSpec
CONSTANTS
  dead1 = dead1  dead2 = dead2  live1 = live1  live2 = live2
  Planned = {dead1, dead2, live1}
  Live = {live1}
  Order <- DeadFirst
  Goal = 2
  MaxSlots = 1  StallAfter = 2  StallBackoff = 1  StallBackoffMax = 3  StreamGrace = 1
  MaxSlotChanges = 2
INVARIANTS SlotsRotate
PROPERTIES LiveIsDownloaded
