-------------------------------- MODULE Pages --------------------------------
(***************************************************************************)
(* The pages of the web client, each with its part of the server.  They    *)
(* share no state: the initial state chooses which of them is open, and    *)
(* the variables of the others are Off.  Comments are extended, and stay   *)
(* as they were at first while another page is open.                       *)
(***************************************************************************)
EXTENDS Comments, Sequences

CONSTANTS
  Components,                                     \* the pages that may be open
  Bound,                                          \* MaxSteps of each but the comments
  Null,                                           \* no value
  GalleryPageSize, GalleryChunk, InFeed,
  Tokens, Short, MaxCount,                        \* upload form
  Size, TrayCount, MaxSize, Mouse, Touch, Columns,
  Remembered, Coming, Links, FirstShown, More, BatchMax,
  Slides, Videos, MaxViews,                       \* card and page of an album
  Sizes, HashChunk, HeadBytes, Packets, MaxCuts,  \* of an upload's body
  AdminUploads, AdminComing, AdminFound, AdminPageSize, Keys,
  AdminTabs, RowIds, NewRow, RowsFound,
  Names, ShortNames, RefusedNames, InviteEmail,   \* sign-up form
  Addresses, Linked, OthersAddresses, MaxSends

VARIABLES
  component,
  server_feed, galleryItems, galleryLast, galleryLoading, loads, g_steps, changes, as_of, mixed,
  mode, files, isPublic, field, holding, tokenLimits, timer, checks, isUploading, sent,
  result, lastUpload, history, u_steps,
  tray, picked, down, pending, hold, trayUploading, preparingShown, done, order, loaded,
  progress, moved, t_steps,
  storage, uploadHistory, visibleCount, historyRequested, historyData, historyErrors,
  batches, existing, h_steps, retried,
  cardData, carouselApi, slide, selectedIndex, cardHovered, onDot, focused,
  persistentSelection, returnTimer, playing, media, ready, expired, waiting, c_steps,
  chosen, displaced,
  upload, pageLoading, screen, pageData, visit, viewTimer, viewIncrement, viewing,
  albumIndex, albumPlaying, page_steps, late, uncounted,
  announced, body, receiving, packet, part, received, disk,
  got, cuts, stat_dl, counting, begun, lost,
  uploads, coming, serverKey, adminKey, sessionKey, authenticated, controls, data,
  loading, requests, a_steps, crossed, others,
  tab, opened, rows, filter, items, busy, creating, under, v_steps, overlapped,
  form, asking, call, accounts, p_steps, unanswered,
  account, view, boxes, account_calls, n_steps, amiss

Off == "off"

Gallery == INSTANCE Gallery WITH
  feed <- server_feed, loading <- galleryLoading,
  requests <- loads, steps <- g_steps,
  PageSize <- GalleryPageSize, Chunk <- GalleryChunk, Initial <- InFeed,
  MaxSteps <- Bound["gallery"], RequestsFail <- CallsFail
GalleryOff ==
  /\ server_feed = Off /\ galleryItems = Off /\ galleryLast = Off /\ galleryLoading = Off
  /\ loads = Off
  /\ g_steps = Off /\ changes = Off /\ as_of = Off /\ mixed = Off
GalleryVars ==
  <<server_feed, galleryItems, galleryLast, galleryLoading, loads, g_steps, changes,
    as_of, mixed>>

Form == INSTANCE UploadForm WITH
  steps <- u_steps,
  MaxSteps <- Bound["form"], Fails <- CallsFail
FormOff ==
  /\ mode = Off /\ files = Off /\ isPublic = Off /\ field = Off /\ holding = Off
  /\ tokenLimits = Off /\ timer = Off /\ checks = Off /\ isUploading = Off /\ sent = Off
  /\ result = Off /\ lastUpload = Off /\ history = Off /\ u_steps = Off
FormVars ==
  <<mode, files, isPublic, field, holding, tokenLimits, timer, checks, isUploading,
    sent, result, lastUpload, history, u_steps>>

Tray == INSTANCE Tray WITH
  isUploading <- trayUploading,
  MaxCount <- TrayCount, MaxSteps <- Bound["tray"]
TrayOff ==
  /\ tray = Off /\ picked = Off /\ down = Off /\ pending = Off /\ hold = Off
  /\ trayUploading = Off /\ preparingShown = Off /\ done = Off /\ order = Off
  /\ loaded = Off /\ progress = Off /\ moved = Off /\ t_steps = Off
TrayVars ==
  <<tray, picked, down, pending, hold, trayUploading, preparingShown, done, order,
    loaded, progress, moved, t_steps>>

History == INSTANCE UploadHistory WITH
  server <- existing,
  Known <- Remembered, Chunk <- BatchMax, MaxSteps <- Bound["history"], Fails <- CallsFail
HistoryOff ==
  /\ storage = Off /\ uploadHistory = Off /\ visibleCount = Off /\ historyRequested = Off
  /\ historyData = Off /\ historyErrors = Off /\ batches = Off /\ existing = Off
  /\ h_steps = Off /\ retried = Off
HistoryVars ==
  <<storage, uploadHistory, visibleCount, historyRequested, historyData, historyErrors,
    batches, existing, h_steps, retried>>

Card == INSTANCE UploadCard WITH
  data <- cardData, MaxSteps <- Bound["card"]
CardOff ==
  /\ cardData = Off /\ carouselApi = Off /\ slide = Off /\ selectedIndex = Off
  /\ cardHovered = Off /\ onDot = Off /\ focused = Off /\ persistentSelection = Off
  /\ returnTimer = Off /\ playing = Off /\ media = Off /\ ready = Off /\ expired = Off
  /\ waiting = Off /\ c_steps = Off /\ chosen = Off /\ displaced = Off
CardVars ==
  <<cardData, carouselApi, slide, selectedIndex, cardHovered, onDot, focused,
    persistentSelection, returnTimer, playing, media, ready, expired, waiting, c_steps,
    chosen, displaced>>

Page == INSTANCE UploadPage WITH
  loading <- pageLoading, data <- pageData,
  selectedIndex <- albumIndex, playing <- albumPlaying,
  p_steps <- page_steps, MaxSteps <- Bound["page"]
PageOff ==
  /\ upload = Off /\ pageLoading = Off /\ screen = Off /\ pageData = Off /\ visit = Off
  /\ viewTimer = Off /\ viewIncrement = Off /\ viewing = Off /\ albumIndex = Off
  /\ albumPlaying = Off /\ page_steps = Off /\ late = Off /\ uncounted = Off
PageVars ==
  <<upload, pageLoading, screen, pageData, visit, viewTimer, viewIncrement, viewing,
    albumIndex, albumPlaying, page_steps, late, uncounted>>

Transfer == INSTANCE Transfer WITH phase <- receiving
TransferOff ==
  /\ announced = Off /\ body = Off /\ receiving = Off /\ packet = Off /\ part = Off
  /\ received = Off /\ disk = Off /\ got = Off /\ cuts = Off /\ stat_dl = Off
  /\ counting = Off /\ begun = Off /\ lost = Off
TransferVars ==
  <<announced, body, receiving, packet, part, received, disk, got, cuts, stat_dl,
    counting, begun, lost>>

Admin == INSTANCE AdminPage WITH
  steps <- a_steps,
  Uploads <- AdminUploads, Coming <- AdminComing, Matching <- AdminFound,
  PageSize <- AdminPageSize,
  MaxSteps <- Bound["admin"], RequestsFail <- CallsFail
AdminOff ==
  /\ uploads = Off /\ coming = Off /\ serverKey = Off /\ adminKey = Off
  /\ sessionKey = Off /\ authenticated = Off /\ controls = Off /\ data = Off
  /\ loading = Off /\ requests = Off /\ a_steps = Off /\ crossed = Off /\ others = Off
AdminVars ==
  <<uploads, coming, serverKey, adminKey, sessionKey, authenticated, controls, data,
    loading, requests, a_steps, crossed, others>>

Views == INSTANCE AdminViews WITH
  view <- opened, server <- rows,
  Tabs <- AdminTabs, Ids <- RowIds, New <- NewRow, Matching <- RowsFound,
  MaxSteps <- Bound["views"], RequestsFail <- CallsFail
ViewsOff ==
  /\ tab = Off /\ opened = Off /\ rows = Off /\ filter = Off /\ items = Off /\ busy = Off
  /\ creating = Off /\ under = Off /\ v_steps = Off /\ overlapped = Off
ViewsVars ==
  <<tab, opened, rows, filter, items, busy, creating, under, v_steps, overlapped>>

Signup == INSTANCE SignupPage WITH
  page <- form, server <- accounts, unsure <- unanswered,
  Short <- ShortNames, Refused <- RefusedNames,
  MaxNames <- Bound["names"], MaxSteps <- Bound["signup"]
SignupOff ==
  /\ form = Off /\ asking = Off /\ call = Off /\ accounts = Off /\ p_steps = Off
  /\ unanswered = Off
SignupVars ==
  <<form, asking, call, accounts, p_steps, unanswered>>

Account == INSTANCE AccountPage WITH
  calls <- account_calls, Taken <- OthersAddresses, MaxSteps <- Bound["account"]
AccountOff ==
  /\ account = Off /\ view = Off /\ boxes = Off /\ account_calls = Off /\ n_steps = Off
  /\ amiss = Off
AccountVars ==
  <<account, view, boxes, account_calls, n_steps, amiss>>

(* What the code and the types of the pages say of their constants. *)
ASSUME PagesAssumption ==
  /\ CommentsAssumption /\ Gallery!GalleryAssumption /\ Tray!TrayAssumption
  /\ Page!PageAssumption
  /\ History!HistoryAssumption /\ Admin!AdminAssumption
  /\ Signup!SignupAssumption /\ Account!AccountAssumption

AnyUpload == CHOOSE u \in Uploads : TRUE

PagesInit ==
  /\ component \in Components
  /\ CInit
  /\ component # "comments" => page = [t \in Tabs |-> NewView(AnyUpload, Browser[t])]
  /\ IF component = "gallery" THEN Gallery!GInit ELSE GalleryOff
  /\ IF component = "form" THEN Form!UInit ELSE FormOff
  /\ IF component = "tray" THEN Tray!TrayInit ELSE TrayOff
  /\ IF component = "history" THEN History!HInit ELSE HistoryOff
  /\ IF component = "card" THEN Card!CardInit ELSE CardOff
  /\ IF component = "page" THEN Page!PageInit ELSE PageOff
  /\ IF component = "transfer" THEN Transfer!TInit ELSE TransferOff
  /\ IF component = "admin" THEN Admin!AInit ELSE AdminOff
  /\ IF component = "views" THEN Views!VInit ELSE ViewsOff
  /\ IF component = "signup" THEN Signup!PInit ELSE SignupOff
  /\ IF component = "account" THEN Account!NInit ELSE AccountOff

PagesNext ==
  /\ UNCHANGED component
  /\ IF component = "comments" THEN CNext ELSE UNCHANGED cvars
  /\ IF component = "gallery" THEN Gallery!GNext ELSE UNCHANGED GalleryVars
  /\ IF component = "form" THEN Form!UNext ELSE UNCHANGED FormVars
  /\ IF component = "tray" THEN Tray!TrayNext ELSE UNCHANGED TrayVars
  /\ IF component = "history" THEN History!HNext ELSE UNCHANGED HistoryVars
  /\ IF component = "card" THEN Card!CardNext ELSE UNCHANGED CardVars
  /\ IF component = "page" THEN Page!PageNext ELSE UNCHANGED PageVars
  /\ IF component = "transfer" THEN Transfer!TNext ELSE UNCHANGED TransferVars
  /\ IF component = "admin" THEN Admin!ANext ELSE UNCHANGED AdminVars
  /\ IF component = "views" THEN Views!VNext ELSE UNCHANGED ViewsVars
  /\ IF component = "signup" THEN Signup!PNext ELSE UNCHANGED SignupVars
  /\ IF component = "account" THEN Account!NNext ELSE UNCHANGED AccountVars

(* The tuples of the instances, which are those of the pages' variables.    *)
pagesVars ==
  <<component, cvars, Gallery!gvars, Form!uvars, Tray!traytvars, History!hvars, Card!cardvars,
    Page!pagevars, Transfer!tvars, Admin!avars, Views!vvars, Signup!pvars, Account!nvars>>

PagesSpec == PagesInit /\ [][PagesNext]_pagesVars

-----------------------------------------------------------------------------
(* Properties: ReactionsAgree of the comments as it stands, and each of    *)
(* the others when its page is open.                                       *)

(* The cards shown are the first ones of the feed. *)
GalleryIsPrefix == component = "gallery" => Gallery!GalleryIsPrefix

(* What is sent and remembered is what the form said. *)
UploadAsShown == component = "form" => Form!UploadAsShown

(* The tiles of the tray say what has been sent. *)
TilesTrue == component = "tray" => Tray!TilesTrue

(* The cards of one's own uploads load or say why not. *)
CardsExplained == component = "history" => History!CardsExplained

(* A card stays on the slide that was chosen. *)
CardAsChosen == component = "card" => Card!CardAsChosen

(* The pages of uploads invent no views. *)
PageTrue == component = "page" => Page!PageTrue

(* Stored, shown and downloaded bytes are the ones that were sent. *)
BytesIntact == component = "transfer" => Transfer!BytesIntact

(* The admin's list of uploads is the server's for what the controls say. *)
ListCurrent == component = "admin" => Admin!ListCurrent

(* The rows of the admin's other tabs are the server's. *)
RowsCurrent == component = "views" => Views!RowsCurrent

(* What is signed up for is what the form showed. *)
SignupAsShown == component = "signup" => Signup!SignupAsShown

(* The settings shown are the account's. *)
AccountAsShown == component = "account" => Account!AccountAsShown
=============================================================================
