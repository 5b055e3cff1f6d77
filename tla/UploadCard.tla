------------------------------ MODULE UploadCard ------------------------------
(***************************************************************************)
(* The card of an album (routes/MiniUpload.svelte): it stays hidden until  *)
(* its first file is there, and the mouse, the keyboard and a dragging     *)
(* finger choose which file it shows; a video plays while it is shown and  *)
(* the mouse is on the card.                                               *)
(*                                                                         *)
(* The slides are moved by the carousel (embla-carousel, external), which  *)
(* says so with a "select" event only when the slide changes.  The card    *)
(* counts the slides itself from what it was told: new data of the same    *)
(* upload, as a refresh of the gallery brings it, sets its count back to   *)
(* the first slide and leaves the carousel where it is.                    *)
(***************************************************************************)
EXTENDS Integers, FiniteSets

CONSTANTS
  Slides,   \* number of files
  Videos,   \* those that are videos
  MaxSteps  \* bound: what the visitor does

VARIABLES
  data,          \* the data is there
  carouselApi,   \* the carousel has started
  slide,         \* the slide it shows
  selectedIndex, \* the slide the card counts
  cardHovered, onDot, focused,  \* the mouse on the card, on a dot; the focused dot
  persistentSelection, returnTimer,
  playing,       \* the videos that play
  media,         \* the first file: "loading", "loaded" (a video's frame is not out), "shown"
  ready, expired, waiting,  \* mediaReady, mediaWaitExpired, the timer of the wait
  c_steps,
  chosen,        \* history: the slide clicked or dragged to last, or NoSlide
  displaced      \* history: new data came over another slide than the first

cardvars == <<data, carouselApi, slide, selectedIndex, cardHovered, onDot, focused,
              persistentSelection, returnTimer, playing, media, ready, expired, waiting,
              c_steps, chosen, displaced>>
selection == <<carouselApi, slide, selectedIndex, playing, displaced>>
pointer == <<cardHovered, onDot, focused>>
firstMedia == <<media, ready, expired, waiting>>

Dots == 1..Slides
NoSlide == 0
Visitor == c_steps < MaxSteps /\ c_steps' = c_steps + 1

CardInit ==
  /\ data = FALSE /\ carouselApi = FALSE /\ slide = 1 /\ selectedIndex = 1
  /\ cardHovered = FALSE /\ onDot = NoSlide /\ focused = NoSlide
  /\ persistentSelection = FALSE /\ returnTimer = FALSE /\ playing = {}
  /\ media = "loading" /\ ready = FALSE /\ expired = FALSE /\ waiting = FALSE
  /\ c_steps = 0 /\ chosen = NoSlide /\ displaced = FALSE

(* syncVideoPlayback: the video counted as selected, if the mouse is here. *)
Played(hovered, selected) == IF hovered THEN {selected} \cap Videos ELSE {}

(***************************************************************************)
(* Data and the first file.                                                *)
(***************************************************************************)

(* The effect on `initial`, for the first data and for new data.           *)
NewData ==
  /\ Visitor
  /\ data' = TRUE
  /\ selectedIndex' = 1 /\ persistentSelection' = FALSE /\ returnTimer' = FALSE
  /\ waiting' = ~ready
  /\ chosen' = NoSlide /\ displaced' = (slide # 1)
  /\ UNCHANGED <<carouselApi, slide, playing, pointer, media, ready, expired>>

(* embla-carousel has made its slides: onCarouselInit.                     *)
CarouselInit ==
  /\ data /\ ~carouselApi
  /\ carouselApi' = TRUE /\ selectedIndex' = slide /\ playing' = Played(cardHovered, slide)
  /\ UNCHANGED <<data, slide, displaced, pointer, persistentSelection, returnTimer, firstMedia,
                 c_steps, chosen>>

(* The first file arrives or fails.  An image is ready with it, a video    *)
(* when its first frame is out.                                            *)
FirstMediaLoads ==
  /\ data /\ media = "loading"
  /\ media' \in {"loaded", "shown"}
  /\ ready' = (media' = "shown") /\ waiting' = (waiting /\ ~ready')
  /\ UNCHANGED <<data, selection, pointer, persistentSelection, returnTimer, expired, c_steps, chosen>>

FirstFrame ==
  /\ media = "loaded"
  /\ media' = "shown" /\ ready' = TRUE /\ waiting' = FALSE
  /\ UNCHANGED <<data, selection, pointer, persistentSelection, returnTimer, expired, c_steps, chosen>>

(* MEDIA_WAIT_MS later the card shows anyway, and looks again at the file. *)
WaitExpires ==
  /\ waiting
  /\ waiting' = FALSE /\ expired' = TRUE /\ ready' = (media # "loading")
  /\ UNCHANGED <<data, selection, pointer, persistentSelection, returnTimer, media, c_steps, chosen>>

revealed == data /\ (ready \/ expired)

(***************************************************************************)
(* Choosing a slide.                                                       *)
(***************************************************************************)

(* showMedia and syncSelection: scrollTo says nothing when it is there.    *)
showMedia(index) ==
  IF carouselApi /\ index # slide
  THEN /\ slide' = index /\ selectedIndex' = index /\ playing' = Played(cardHovered, index)
       /\ displaced' = FALSE /\ carouselApi' = carouselApi
  ELSE UNCHANGED selection

previewMedia(index) ==
  /\ persistentSelection' = FALSE /\ returnTimer' = FALSE /\ chosen' = NoSlide
  /\ showMedia(index)

(* Mutant of keepMedia: the timer of an earlier preview runs on. *)
keepMediaForNow(index) ==
  /\ persistentSelection' = TRUE /\ returnTimer' = returnTimer
  /\ chosen' = (IF carouselApi THEN index ELSE NoSlide)
  /\ showMedia(index)

keepMedia(index) ==
  /\ persistentSelection' = TRUE /\ returnTimer' = FALSE
  /\ chosen' = (IF carouselApi THEN index ELSE NoSlide)
  /\ showMedia(index)

(* Four seconds after a preview the card goes back to its first file.      *)
scheduleFirstMedia ==
  /\ returnTimer' = (returnTimer \/ ~persistentSelection)
  /\ UNCHANGED <<persistentSelection, chosen, selection>>

ReturnTimerFires ==
  /\ returnTimer
  /\ returnTimer' = FALSE
  /\ showMedia(1)
  /\ UNCHANGED <<data, pointer, persistentSelection, firstMedia, c_steps, chosen>>

EnterDot(i) ==
  /\ Visitor
  /\ revealed /\ cardHovered /\ onDot = NoSlide
  /\ onDot' = i /\ previewMedia(i)
  /\ UNCHANGED <<data, cardHovered, focused, firstMedia>>

LeaveDot ==
  /\ Visitor
  /\ onDot # NoSlide
  /\ onDot' = NoSlide /\ scheduleFirstMedia
  /\ UNCHANGED <<data, cardHovered, focused, firstMedia>>

FocusDot(i) ==
  /\ Visitor
  /\ revealed /\ focused = NoSlide
  /\ focused' = i /\ previewMedia(i)
  /\ UNCHANGED <<data, cardHovered, onDot, firstMedia>>

BlurDot ==
  /\ Visitor
  /\ focused # NoSlide
  /\ focused' = NoSlide /\ scheduleFirstMedia
  /\ UNCHANGED <<data, cardHovered, onDot, firstMedia>>

(* With the mouse or the keyboard; the focus the mouse may bring is taken  *)
(* with the click that follows it.                                         *)
ClickDot(i) ==
  /\ Visitor
  /\ revealed /\ i \in {onDot, focused}
  /\ focused' \in {i, focused} /\ keepMedia(i)
  /\ UNCHANGED <<data, cardHovered, onDot, firstMedia>>

(* pointerDown on the carousel, and the slide it is let go at.             *)
Drag(index) ==
  /\ Visitor
  /\ revealed /\ carouselApi /\ Slides > 1
  /\ keepMedia(index)
  /\ UNCHANGED <<data, pointer, firstMedia>>

handleCardEnter ==
  /\ Visitor
  /\ ~cardHovered
  /\ cardHovered' = TRUE /\ playing' = IF data THEN Played(TRUE, selectedIndex) ELSE {}
  /\ UNCHANGED <<data, carouselApi, slide, selectedIndex, onDot, focused, persistentSelection,
                 returnTimer, firstMedia, chosen, displaced>>

handleCardLeave ==
  /\ Visitor
  /\ cardHovered /\ onDot = NoSlide
  /\ cardHovered' = FALSE /\ playing' = {}
  /\ UNCHANGED <<data, carouselApi, slide, selectedIndex, onDot, focused, persistentSelection,
                 returnTimer, firstMedia, chosen, displaced>>

CardNext ==
  \/ NewData \/ CarouselInit \/ FirstMediaLoads \/ FirstFrame \/ WaitExpires
  \/ ReturnTimerFires
  \/ \E i \in Dots : EnterDot(i) \/ FocusDot(i) \/ ClickDot(i) \/ Drag(i)
  \/ LeaveDot \/ BlurDot \/ handleCardEnter \/ handleCardLeave

CardSpec == CardInit /\ [][CardNext]_cardvars

-----------------------------------------------------------------------------
(***************************************************************************)
(* Property.  In whatever order dots are hovered, focused and clicked and  *)
(* timers fire: the slide a visitor clicked or dragged to stays until they *)
(* point at another; one video plays at most, the one on screen, and none  *)
(* without the mouse; the dots tell which slide is on screen - these two   *)
(* unless new data came over a slide - and a card with data is out, or its *)
(* wait runs.                                                              *)
(***************************************************************************)
CardAsChosen ==
  /\ chosen # NoSlide => slide = chosen
  /\ playing # {} => cardHovered /\ Cardinality(playing) = 1
  /\ ~displaced => playing \subseteq {slide}
  /\ carouselApi /\ ~displaced => selectedIndex = slide
  /\ data => revealed \/ waiting
  /\ ready => media # "loading"
=============================================================================
