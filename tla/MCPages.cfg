SPECIFICATION PagesSpec
CONSTANTS
  Components = {"comments", "gallery", "form", "tray", "history", "card", "page",
                "transfer", "admin", "views", "signup", "account"}
  Null = Null
  CallsFail = TRUE
  Bound <- MCBound
  Tabs = {"t1", "t2"}
  Browser <- OneBrowser
  Uploads = {"A", "B"}
  CommentIds = {"1", "2"}
  FirstComment = "1"
  Other = "b2"
  IdAttempts = 2
  MaxSteps = 3
  GalleryPageSize = 2
  GalleryChunk = 3
  InFeed = 4
  Tokens = {"T1", "T2"}
  Short = "T"
  MaxCount <- TwoFilesWithToken
  Size <- FourSizes
  TrayCount = 3
  MaxSize = 3
  Mouse = {"m"}
  Touch = {"f"}
  Columns = 3
  Remembered <- ThreeRemembered
  Coming = {4}
  Links = {2}
  FirstShown = 2
  More = 1
  BatchMax = 1
  Slides = 3
  Videos = {1, 3}
  MaxViews = 1
  Sizes <- ThreeSizes
  HashChunk = 2
  HeadBytes = 2
  Packets = {1, 2, 3, 5}
  MaxCuts = 4
  AdminUploads = {1, 2, 3, 4}
  AdminComing = {1}
  AdminFound = {3, 4}
  AdminPageSize = 2
  Keys = {"k1", "k2"}
  AdminTabs = {"tokens", "users", "invites", "requests"}
  RowIds = {1, 2}
  NewRow = 3
  RowsFound = {2}
  Names = {"n", "ann", "bob"}
  ShortNames = {"n"}
  RefusedNames = {}
  InviteEmail <- MailedTo
  Addresses = {"x", "y", "z"}
  Linked = {"z"}
  OthersAddresses = {"z"}
  MaxSends = 2
INVARIANTS
  ReactionsAgree
  GalleryIsPrefix
  UploadAsShown
  TilesTrue
  CardsExplained
  CardAsChosen
  PageTrue
  BytesIntact
  ListCurrent
  RowsCurrent
  SignupAsShown
  AccountAsShown
CHECK_DEADLOCK FALSE
