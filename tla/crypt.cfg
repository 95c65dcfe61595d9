SPECIFICATION AllSpec
CONSTANTS
  Threads = {t1, t2}
  NoThread = nobody
  Keys = {"k128", "k256"}
  KeyBits <- Bits
  Texts = {"p", "q"}
  NoText = "no text"
  Algs = {"AES_GCM_128", "AES_GCM_256", "AES_CCM_128", "SM4_CTR", "UNSPECIFIED"}
  MaxFills = 4
  Chunks = {a, b}
  MaxChunks = 2
  AlgIds = {0, 3, 4}
  IterationTimes = {999, 1000, 65536, 20000000, 20000001}
  OutLens = {31, 32, 128, 129}
  SaltLens = {15, 16, 64, 65}
  Cuts = {1, 15, 16, 17, 55, 300}
  Bytes = {0, 1, 127}
INVARIANTS
  IssuedOpens
  OnlyIssuedOpens
  NoTextLeft
  DigestOfAllInput
  UnpacksWhatWasPacked
