---------------------------- MODULE ImageViewer -----------------------------
(***************************************************************************)
(* The images of a campaign's posts and of their earlier versions: the     *)
(* thumbnails a post shows before and after "See more", the list and the   *)
(* index they hand to the viewer, and the viewer, which turns pages by     *)
(* buttons, keys and touches and keeps its state while it is closed. Posts *)
(* are numbered; a whole list of images is the same value whenever it is   *)
(* handed over, a shortened one is a new value at every render.            *)
(***************************************************************************)
EXTENDS Naturals, Sequences

CONSTANTS ImagesOf,    \* how many images each post, or version, has
          MaxDisplayed \* MAX_IMAGES_DISPLAY

ASSUME ViewerAssumption == /\ \A p \in DOMAIN ImagesOf : ImagesOf[p] \in Nat \ {0}
                           /\ MaxDisplayed \in Nat \ {0}

VARIABLES expanded, \* the posts whose images are all shown
          dialog,   \* the dialog of the version history; "none" on the list of posts
          viewer,   \* the props of the viewer and its state
          touch,    \* touchStart and touchEnd; the finger and how far it went; history: a touch was broken off
          clicked   \* history: the thumbnail clicked last, whether the viewer turned since, whether
                    \* it got the very list and index it had

viewerVars == <<expanded, dialog, viewer, touch, clicked>>

Posts == DOMAIN ImagesOf

\* Where a finger is, against where it went down; left and right are more than MIN_SWIPE_DISTANCE away
Ways == {"near", "left", "right"}

Thumbnails(p) ==
    IF p \in expanded \/ ImagesOf[p] <= MaxDisplayed THEN ImagesOf[p] ELSE MaxDisplayed

ListOf(p) == [post |-> p, len |-> Thumbnails(p), whole |-> p \in expanded]

ViewerInit ==
    /\ expanded = {}
    /\ dialog \in {"none", "closed"}
    /\ viewer = [isOpen |-> FALSE, images |-> [post |-> 0, len |-> 0, whole |-> FALSE],
                 initialIndex |-> 0, currentIndex |-> 0, mobile |-> FALSE, showControls |-> FALSE]
    /\ touch = [touchStart |-> FALSE, touchEnd |-> "none", down |-> FALSE, way |-> "none", broken |-> FALSE]
    /\ clicked = [index |-> 0, turned |-> FALSE, same |-> FALSE]

\* See more below the images of a post
SeeMore ==
    /\ ~viewer.isOpen /\ dialog # "closed"
    /\ \E p \in Posts \ expanded : ImagesOf[p] > MaxDisplayed /\ expanded' = expanded \cup {p}
    /\ UNCHANGED <<dialog, viewer, touch, clicked>>

\* handleDialogOpenChange: the dialog does not close under an open viewer
HandleDialogOpenChange ==
    /\ \/ dialog = "closed" /\ dialog' = "open"
       \/ dialog = "open" /\ ~viewer.isOpen /\ dialog' = "closed"
    /\ UNCHANGED <<expanded, viewer, touch, clicked>>

\* A variant whose effect watches the index only
IndexFollowsIndex(images, index) ==
    IF index = viewer.initialIndex THEN viewer.currentIndex ELSE index

\* The effect on [initialIndex, images]: it runs when either is another value
IndexFollows(images, index) ==
    IF index = viewer.initialIndex /\ images = viewer.images /\ images.whole
    THEN viewer.currentIndex
    ELSE index

\* handleImageClick of the list of posts and of the version history; on a phone
\* the controls show
HandleImageClick ==
    /\ ~viewer.isOpen /\ dialog # "closed"
    /\ \E p \in Posts : \E i \in 0..(Thumbnails(p) - 1) :
         /\ viewer' = [viewer EXCEPT !.isOpen = TRUE, !.images = ListOf(p), !.initialIndex = i,
                                     !.currentIndex = IndexFollows(ListOf(p), i),
                                     !.showControls = @ \/ viewer.mobile]
         /\ clicked' = [index |-> i, turned |-> FALSE,
                        same  |-> i = viewer.initialIndex /\ p \in expanded /\ viewer.images = ListOf(p)]
    /\ UNCHANGED <<expanded, dialog, touch>>

\* A variant that runs past the last image
NextUnbounded(i) == i + 1

NextIndex(i) == (i + 1) % viewer.images.len

PrevIndex(i) == (i + viewer.images.len - 1) % viewer.images.len

\* The arrow buttons and the arrow keys
Turn ==
    /\ viewer.isOpen
    /\ \/ viewer' = [viewer EXCEPT !.currentIndex = NextIndex(@)]
       \/ viewer' = [viewer EXCEPT !.currentIndex = PrevIndex(@)]
    /\ clicked' = [clicked EXCEPT !.turned = TRUE]
    /\ UNCHANGED <<expanded, dialog, touch>>

\* The X, the backdrop and Escape; the index and an unfinished touch stay
HandleClose ==
    /\ viewer.isOpen
    /\ viewer' = [viewer EXCEPT !.isOpen = FALSE, !.showControls = FALSE]
    /\ touch' = [touch EXCEPT !.down = FALSE, !.broken = @ \/ touch.down]
    /\ UNCHANGED <<expanded, dialog, clicked>>

\* A tap on the image of a phone, and CONTROL_AUTO_HIDE_DELAY
ToggleControls ==
    /\ viewer.isOpen /\ viewer.mobile
    /\ viewer' = [viewer EXCEPT !.showControls = ~@]
    /\ UNCHANGED <<expanded, dialog, touch, clicked>>

\* The window crosses the breakpoint; the controls of an open viewer show when it becomes narrow
WindowResized ==
    /\ ~touch.down
    /\ viewer' = [viewer EXCEPT !.mobile = ~@, !.showControls = @ \/ (viewer.isOpen /\ ~viewer.mobile)]
    /\ UNCHANGED <<expanded, dialog, touch, clicked>>

HandleTouchStart ==
    /\ viewer.isOpen /\ ~touch.down
    /\ touch' = [touch EXCEPT !.touchStart = TRUE, !.down = TRUE, !.way = "near"]
    /\ UNCHANGED <<expanded, dialog, viewer, clicked>>

HandleTouchMove ==
    /\ touch.down
    /\ \E way \in Ways : touch' = [touch EXCEPT !.touchEnd = way, !.way = way]
    /\ UNCHANGED <<expanded, dialog, viewer, clicked>>

\* The browser takes the touch over: no handler hears of it
TouchCancelled ==
    /\ touch.down
    /\ touch' = [touch EXCEPT !.down = FALSE, !.broken = TRUE]
    /\ UNCHANGED <<expanded, dialog, viewer, clicked>>

\* A variant that forgets only where the touch began
TouchEndKept ==
    /\ touch.down
    /\ IF touch.touchEnd = "none"
       THEN /\ touch' = [touch EXCEPT !.down = FALSE]
            /\ UNCHANGED <<viewer, clicked>>
       ELSE /\ touch' = [touch EXCEPT !.down = FALSE, !.touchStart = FALSE]
            /\ viewer' = [viewer EXCEPT !.currentIndex = CASE touch.touchEnd = "left" -> NextIndex(@)
                                                           [] touch.touchEnd = "right" -> PrevIndex(@)
                                                           [] OTHER -> @]
            /\ clicked' = [clicked EXCEPT !.turned = @ \/ touch.touchEnd # "near"]
    /\ UNCHANGED <<expanded, dialog>>

\* handleTouchEnd: a finger that moved far enough turns; a tap returns early
HandleTouchEnd ==
    /\ touch.down
    /\ IF touch.touchEnd = "none"
       THEN /\ touch' = [touch EXCEPT !.down = FALSE]
            /\ UNCHANGED <<viewer, clicked>>
       ELSE /\ touch' = [touch EXCEPT !.down = FALSE, !.touchStart = FALSE, !.touchEnd = "none"]
            /\ viewer' = [viewer EXCEPT !.currentIndex = CASE touch.touchEnd = "left" -> NextIndex(@)
                                                           [] touch.touchEnd = "right" -> PrevIndex(@)
                                                           [] OTHER -> @]
            /\ clicked' = [clicked EXCEPT !.turned = @ \/ touch.touchEnd # "near"]
    /\ UNCHANGED <<expanded, dialog>>

ViewerNext == \/ SeeMore \/ HandleDialogOpenChange \/ HandleImageClick \/ Turn \/ HandleClose
              \/ ToggleControls \/ WindowResized
              \/ HandleTouchStart \/ HandleTouchMove \/ TouchCancelled \/ HandleTouchEnd

ViewerSpec == ViewerInit /\ [][ViewerNext]_viewerVars

(***************************************************************************)
(* Properties                                                              *)
(***************************************************************************)
\* Types: an open viewer shows one of its images, over the dialog it was opened from
ViewerTypeOK ==
    /\ expanded \subseteq Posts /\ dialog \in {"none", "closed", "open"}
    /\ viewer.isOpen => viewer.currentIndex \in 0..(viewer.images.len - 1) /\ dialog # "closed"
    /\ viewer.showControls \in BOOLEAN /\ viewer.mobile \in BOOLEAN
    /\ touch.touchEnd \in Ways \cup {"none"} /\ (touch.down => touch.touchStart /\ viewer.isOpen)

\* OpensAtTheClick: until it turns, the viewer shows the image that was clicked, whatever it
\* showed before; the one exception is the whole list of the same post clicked at the same
\* image again, where the effect has nothing to notice
OpensAtTheClick ==
    viewer.isOpen /\ ~clicked.turned => viewer.currentIndex = clicked.index \/ clicked.same

\* TapsDoNotTurn: while a finger is down, where handleTouchEnd will say that it went is where
\* this touch went, not an earlier one, as long as every touch before it was ended and not
\* broken off: a tap turns no page
TapsDoNotTurn == touch.down /\ ~touch.broken => touch.touchEnd \in {"none", touch.way}
=============================================================================
