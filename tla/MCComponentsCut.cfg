CONSTANTS
  Recs = {r1, r2, r3}
  NULL = NULL
  EA_SIZE_MAX = 15
  RecLens = {1, 2, 3}
  RECLEN = 2
  Ptrs = {p, q}
  NULLPTR = NULLPTR
  INT64_MAX = 6
  Objs = {o1, o2, o3, o4}
  POOLSIZE = 1
  MaxAlloc = 1
  RATIO = 2
  WORD = 4
  BLK = 2
  BYTE = 3
  CTRMAX = 20
  AesKeys = {"k1", "k2"}
  Nonces = {0, 1}
  CallLens = {0, 1, 2, 3, 4, 5, 7}
  HBLK = 4
  CNT = 1
  BITS = 2
  CWORD = 16
  HLEN = 2
  HashLens = {0, 1, 2, 3, 5, 9}
  MaxMessage = 14
  KeyLens = {0, 3, 4, 5}
  RESEED_INTERVAL = 3
  GENERATE_MAXLEN = 2
  SEED = 2
  NONCE = 1
  ReadLens = {0, 1, 2, 3, 9}
  NOTHING = NOTHING
  Documents <- MCDocuments
  Names <- MCNames
  UHEX = 2
  Chars <- MCChars
  Switch <- MCSwitch
  Commands <- MCCommands
  NOOPT = NOOPT
  MISSING = MISSING
  MaxFd = 3
  InitAlloc = 1
  SIZE_MAX = 15
SPECIFICATION Spec
SYMMETRY MCSymmetry
CHECK_DEADLOCK FALSE
INVARIANTS
  NothingOfCut
