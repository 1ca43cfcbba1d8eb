SPECIFICATION GuideSpec
CONSTANTS
  ChannelTables <- SmallChannels
  TitleTables <- SmallTitles
  SummaryTables <- SmallSummaries
  Period = {1, 2}
  TimeOffset = 1
  Known = {1, 2}
  DictionaryLines <- SmallLines
  MaxLines = 3
  Texts <- SmallTexts
  NUL = NUL
  Marker = Marker
INVARIANTS
  SearchIsExact
  EachTitleOnce
  ChannelsAnnounced
  TextIsExact
CHECK_DEADLOCK FALSE
