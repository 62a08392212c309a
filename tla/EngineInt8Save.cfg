SPECIFICATION Spec
CONSTANTS
    a = a  e = e  c1 = c1  c2 = c2  m1 = m1  m2 = m2  h0 = h0  h1 = h1  h2 = h2
    Token <- Tokens
    EOS = e
    BOS = a
    Prompt <- ShortPrompts
    MaxTok = {0, 3}
    Conv = {c1}
    NoConv = NoConv
    Model = {m1}
    NoModel = NoModel
    Hash <- Hashes
    ZeroHash = h0
    Fingerprint <- Prints
    FingerprintFails = FALSE
    Contexts = {4}
    Overflow = 0
    MaxSlots = 4
    Override = TRUE
    MinSave = 2
    RecentCap = 2
    Junk = Junk  NoFile = NoFile  Null = Null  NoReq = NoReq
INVARIANT NoInt8File
CHECK_DEADLOCK FALSE
