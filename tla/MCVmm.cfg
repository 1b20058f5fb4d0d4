CONSTANTS
  E4 = 2
  E3 = 4
  E2 = 8
  E1 = 2
  KERNEL_VMA = 96
  TEXT <- MCText
  RODATA <- MCRodata
  DATA <- MCData
  BSS <- MCBss
  VIRT_END <- MCVirtEnd
  HEAP_VIRT_START <- MCHeap
  HEAP_PHYS = 20
  HEAP_PAGES = 2
  VGA = 1
  BOOT_PML4 = 16
  BOOT_PDPT = 17
  BOOT_PDS <- MCBootPds
  Free <- MCFree
  Requests <- MCRequests
  MAX_CALLS = 2
SPECIFICATION Spec
INVARIANTS
  TablesHaveOneOwner
  KernelKeepsRunning
  AuditMatchesHardware
  HardenedMeansNoWX
  NoReservedBit
  SelfTestMeansWX
PROPERTIES
  ImplementsAddressSpace
CHECK_DEADLOCK FALSE
