SPECIFICATION Spec
CONSTANTS
  BLOCK_SIZE = 4
  WORD = 2
  WORD_BYTES = 1
  HEADER_WORDS = 2
  ADDRESSES = 64
  KERNEL_START = 17
  KERNEL_END = 20
  Maps <- AllMaps
INVARIANTS
  TypeOK
  BitmapExact
  FreeAccounting
  HeldApart
  IInv
PROPERTY
  Implements
