CONSTANTS
  NumSlots = 3
  SlotIds <- MCSlotIds
  MaxQueue = 2
  Regs <- MCRegs
  MaxCount = 2
SPECIFICATION MCSpec
INVARIANTS PathTypeOK OneGrant BoundedWait Conserved ReadFresh NoSpuriousResponse
PROPERTIES HostServed StallKeepsOrder ReadsAnswered WritesAnswered
