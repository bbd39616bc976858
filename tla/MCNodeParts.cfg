SPECIFICATION PartsSpec
CONSTANTS
  \* the DMX512 driver: a start code and two slots
  MaxSlots = 2
  MinReceiveSlots = 1
  DataEndWait = 2
  BreakSentWait = 3
  ByteTicks = 2
  BreakTicks = 3
  FifoDepth = 2
  StartCodes = {0, 1, 2}
  SlotBytes = {0, 1}
  RdmStart = 1
  \* the shared frame and the port
  Frames = {f1, f2}
  OverrideTimeout = 1
  KeepAlive = 2
  Throttle = 1
  InputTimeout = 3
  MaxLag = 1
  Never = never
  \* discovery and subscribers
  Peers = {p1, p2, p3}
  MaxSubscribers = 2
  MaxReplies = 2
  ReplyDelay = 1
  PollInterval = 1
  SubTimeout = 2
  DiscoveryTime = 1
  BindRetry = 1
  DirMaxLag = 1
  Nobody = nobody
  \* the ArtDmx sequence table
  SeqSenders = {s1, s2, s3}
  SeqSlots = 2
  SeqSize = 6
  SeqTimeout = 1
  NoSender = nosender
  \* sessions, uploads and restarts
  FlashSize = 1
  FsImageSize = 2
  ConfigLimit = 1
  IdleTimeout = 2
  FailureWindow = 2
  FailureLimit = 2
  RestartDelay = 1
  MaxUpload = 2
  \* the Wi-Fi link
  Addresses = {a1, a2}
  ApAddress = ap
  NoAddress = none
  MinDelay = 1
  MaxDelay = 4
  RequestDelay = 1
  Outages = {2, 3}
  SwitchDelay = 1
  TestTimeout = 3
  JoinTime = 3
  WifiMaxLag = 1
  QuietLimit = 17
  \* boot and the RS-485 port
  RestartOnly = {h1, h2}
  GuardFrames = 2
  \* button and LEDs
  Debounce = 2
  ShortPressMax = 3
  LongPress = 4
  FlashTime = 1
  PatternTime = 1
  \* the test tool of the fixture
  ToolPacket = 2
  ToolCapacity = 2
  ToolFifo = 2
  ToolBreak = 2
  ToolIdle = 3
  ToolLag = 2
  \* the sACN socket
  Universes = {0, 1, 2}
  StaAddresses = {sta1, sta2}
  SoftApAddress = softap
  UnsetAddress = unset
INVARIANTS
  PartsTypeOK
  DeliveredIsOnePacket
  OutputShowsFrame LastInputIsKept NetworkIsKeptAlive OverrideEnds
  SubscribersAreLive ChangeIsAnnounced PollsAreAnswered
  FreshIsAccepted ReplayIsDropped
  UpdateIsWhole ConfigUploadIsReported LockoutEnds
  StationReturnsInTime
  GuardDecisionLasts PortFollowsConfig
  PressActsOnce
  WaitSeesOnePacket SenderOwnsThePins
  NoMembershipLeak
PROPERTIES
  BaudIsStableWhileSending PacketsAreWhole
VIEW PartInView
