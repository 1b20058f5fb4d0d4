SPECIFICATION Spec
CHECK_DEADLOCK FALSE
CONSTANTS
  Phys = {0, 1500, 5000}
  Totals = {0, 8, 28, 60, 96, 2000}
  TagSizes <- MCTagSizes
  EntrySizes = {16, 24, 32}
  BOOT_MAPPED = 4096
  PAGE_SIZE = 64
  SPAN_CAP = 1024
  MMAP_CAP = 2
  STR_CAP = 47
  U64_MAX = 50000
  Levels <- MCLevels
  Targets <- MCTargets
  Lines <- MCLines
  Framebuffers <- MCFramebuffers
  MIB = 256
  Firmware <- MCFirmware
  KERNEL_IMAGE <- MCKernelImage
INVARIANTS
  RamAsDeclared
  TagsNeverOverlap
  ReadsInsideStructure
  NothingLiveIsUsable
  LimitHonoured
PROPERTY
  BootInfoSettles
