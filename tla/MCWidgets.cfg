CONSTANTS
  Parts = {"tokenizer", "sheet", "theme", "node", "widget", "focus", "button", "paint", "border", "scroll", "lookup", "icon theme", "info", "texture", "icon"}
  Texts <- MCTexts
  RECURSIVE_CALLERS_LIMIT = 2
  SheetTexts <- MCSheetTexts
  ParseText <- Stylesheet
  ParseStatement <- StatementFromBuf
  ParseDeclarations <- DeclarationListFromBuf
  ParseValue <- ExpressionFromBuf
  InCoreGrammar <- ParsesAgainstCore
  Files <- MCFiles
  Content <- MCContent
  BaseFiles <- MCBaseFiles
  CustomFiles = {"x1", "x2", "bad"}
  Nodes <- MCNodes
  MaxSheets = 5
  Depth = 2
  NodeStyles <- MCNodeStyles
  ScaleFactor = 2
  Resolution = 96
  ContextFont <- MCFont
  AccentColor <- MCAccent
  AccentFgColor <- MCAccentFg
  NamedColors <- MCNamedColors
  Luminance <- MCLuminance
  Allocations = {12}
  Files_ = {"f", "g"}
  w1 = w1
  w2 = w2
  Widgets = {w1, w2}
  Starts <- MCStarts
  Stage = stage
  Nobody = nobody
  Classes = {"slow", ""}
  Inlines = {"i"}
  Pseudos = {"active"}
  Duration <- MCDuration
  Looks <- MCLooks
  MaxGeneration = 1
  MaxOps = 4
  Actors = {"g", "a", "b", "c", "d", "e"}
  Roots = {"g", "b"}
  Hideable = {"a", "d"}
  Kids <- MCKids
  ActorBox <- MCActorBox
  Unfocused = "none"
  MaxGroupCount = 1
  MouseButtons = {1, 3}
  Touches = {"s", "t"}
  MaxClicks = 2
  Painters = {"p", "q"}
  PaintNodes = {"plain", "image", "grad", "same"}
  Style <- MCStyle
  Alike <- MCAlike
  Sizes = {2, 5}
  Scales = {1, 2}
  PaintFiles = {"f"}
  NoPicture = "-"
  NoNodeYet = "none"
  MaxVersion = 2
  MaxPaintSteps = 3
  Widths = {2}
  Radii = {1, 4}
  Lengths = {4, 7}
  Blurs = {2}
  Spreads = {1}
  ViewSizes <- MCViewSizes
  Contents <- MCContents
  PolicyPairs <- MCPolicyPairs
  BarSize = 2
  MinHandle = 2
  TroughInset = 1
  RightToLeft = FALSE
  Points = {0, 10}
  MaxScrollOps = 4
  IconFiles <- MCIconFiles
  Groups <- MCGroups
  Asked <- MCAsked
  Dimensions = {4, 7}
  Ratios2 = {1, 2}
  MaxFiles = 2
  Paths = {"p"}
  ThemeNames = {"own", "base", "hi"}
  Default = "base"
  Gnome = "own"
  Fallback = "hi"
  Inherits <- MCInherits
  Keepers <- MCKeepers
  IconKeys = {"k"}
  SlowHandlers = FALSE
  MaxMtime = 2
  MaxPathLength = 2
  MaxThemeOps = 3
  InfoKeys = {"a", "e"}
  Emblems <- MCEmblems
  Readable = {"a", "e"}
  SymbolicKeys = {"s"}
  Colours = {"red"}
  InfoIds = {1, 2, 3}
  LruSize = 1
  MaxHandles = 2
  MaxInfoOps = 4
  NamedIcons = {"i"}
  NamelessIcons = {"n"}
  MissingIcons = {}
  ImageFiles = {"f"}
  ImageSize <- MCImageSize
  RoomSizes <- MCRoomSizes
  TextureScales = {1, 2}
  Slots = {"s", "t"}
  MaxTheme = 2
  MaxFileVersion = 2
  MaxTextureOps = 3
  Gicons = {"a", "f"}
  ThemedGicons = {"a", "missing"}
  SymbolicGicons = {"a"}
  DefaultGicon = "missing"
  ThemeGicons <- MCThemeGicons
  PropSizes <- MCPropSizes
  StyleIconSizes = {0, 3}
  StyleIconColors = {"c", "d"}
  StyleIconShadows = {"no shadow", "s", "inset"}
  IconScales = {1, 2}
  MaxIconOps = 3
SPECIFICATION PartsSpec
INVARIANTS
  TokensAreKept
  SheetsAreKept
  CascadeIsSound
  AnswersAgree
  WidgetsAreStyled
  FocusMovesAsAsked
  ActiveIsPressed
  SettledPaintIsFresh
  FramesAreSound
  ViewShowsContent
  LookupFindsTheIcon
  IconsAreCurrent
CHECK_DEADLOCK FALSE
