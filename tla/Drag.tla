-------------------------------- MODULE Drag --------------------------------
(***************************************************************************)
(* move_window (componts.rs): a frameless window is dragged by its title   *)
(* bar.  The handler sees the events of one window in order; a cursor      *)
(* event carries the position relative to the window as it was when the    *)
(* event was made, and the window may have moved before it is handled.     *)
(*                                                                         *)
(* One axis, the vertical one, is modelled: the other has the same         *)
(* arithmetic and no title bar.  Positions are whole pixels, for which     *)
(* the conversion to i32 is exact.  move_window is called twice for each   *)
(* window; the handler registered last replaces the first.                 *)
(***************************************************************************)
EXTENDS Integers, Sequences

CONSTANTS
  TITLE_BAR_HEIGHT,  \* rows 0..TITLE_BAR_HEIGHT are the title bar
  Height,            \* rows 0..Height - 1 are the window
  Screen,            \* bound: rows the cursor may be on
  Reach,             \* bound: how far from row 0 the window may get
  MaxQueue           \* bound: events waiting

ASSUME DragAssumption ==
  /\ TITLE_BAR_HEIGHT \in Nat /\ Height \in Nat \ {0}
  /\ Screen \subseteq Int /\ Reach \in Nat /\ MaxQueue \in Nat \ {0}

VARIABLES
  (* the cells of the closure *)
  is_dragging, drag_start_position, last_cursor_position,
  (* the window system: row of the window and of the cursor, the left      *)
  (* button, the events not yet handled                                    *)
  window, cursor, held, events,
  (* history: the last cursor position the drag took was the true one, and *)
  (* a release went elsewhere and no button was pressed here since         *)
  exact, lost

cells == <<is_dragging, drag_start_position, last_cursor_position>>
history == <<exact, lost>>
dragVars == <<cells, window, cursor, held, events, history>>

-----------------------------------------------------------------------------
Kinds == {"moved", "pressed", "released", "other"}

Events == [kind : Kinds, at : Int, fresh : BOOLEAN]

DragTypeOK ==
  /\ is_dragging \in BOOLEAN
  /\ drag_start_position \in Int /\ last_cursor_position \in Int
  /\ window \in -Reach..Reach /\ cursor \in Screen /\ held \in BOOLEAN
  /\ events \in Seq(Events)
  /\ Len(events) <= MaxQueue
  /\ exact \in BOOLEAN /\ lost \in BOOLEAN

DragInit ==
  /\ is_dragging = FALSE
  /\ drag_start_position = 0 /\ last_cursor_position = 0
  /\ window = 0 /\ cursor \in Screen
  /\ held = FALSE /\ events = <<>>
  /\ exact = FALSE /\ lost = FALSE

-----------------------------------------------------------------------------
(* The window system.  An event records where on the window the cursor is  *)
(* when it is made; `fresh` turns false when the window moves after that.  *)
Over(row) == row - window \in 0..(Height - 1)

Post(kind, row) ==
  /\ Len(events) < MaxQueue
  /\ events' = Append(events, [kind |-> kind, at |-> row - window, fresh |-> TRUE])

(* While the button is held the window gets the events of the whole screen.*)
CursorMoves(row) ==
  /\ cursor' = row
  /\ IF Over(row) \/ held THEN Post("moved", row) ELSE UNCHANGED events
  /\ UNCHANGED <<cells, window, held, history>>

ButtonDown ==
  /\ ~held /\ Over(cursor)
  /\ held' = TRUE
  /\ Post("pressed", cursor)
  /\ lost' = FALSE
  /\ UNCHANGED <<cells, window, cursor, exact>>

ButtonUp ==
  /\ held
  /\ held' = FALSE
  /\ Post("released", cursor)
  /\ UNCHANGED <<cells, window, cursor, history>>

OtherButton ==
  /\ Over(cursor)
  /\ Post("other", cursor)
  /\ lost' = FALSE
  /\ UNCHANGED <<cells, window, cursor, held, exact>>

(* Another program takes the mouse and gets the release.                   *)
LoseCapture ==
  /\ held
  /\ held' = FALSE
  /\ lost' = TRUE
  /\ UNCHANGED <<cells, window, cursor, events, exact>>

-----------------------------------------------------------------------------
(* The handler.                                                            *)
(* Variant of Moved: each move is taken for the start of the next one.     *)
MovedRestarts(position) ==
  /\ last_cursor_position' = position
  /\ IF is_dragging
     THEN /\ window' = window + (position - drag_start_position)
          /\ window' \in -Reach..Reach
          /\ exact' = Head(events).fresh
          /\ drag_start_position' = position
     ELSE UNCHANGED <<window, exact, drag_start_position>>
  /\ UNCHANGED is_dragging

Moved(position) ==
  /\ last_cursor_position' = position
  /\ IF is_dragging
     THEN /\ window' = window + (position - drag_start_position)
          /\ window' \in -Reach..Reach
          /\ exact' = Head(events).fresh
     ELSE UNCHANGED <<window, exact>>
  /\ UNCHANGED <<is_dragging, drag_start_position>>

InTitleBar == last_cursor_position <= TITLE_BAR_HEIGHT

Pressed ==
  /\ IF InTitleBar
     THEN /\ is_dragging' = TRUE
          /\ drag_start_position' = last_cursor_position
          /\ exact' = (Head(events).fresh /\ Head(events).at = last_cursor_position)
     ELSE /\ is_dragging' = FALSE
          /\ UNCHANGED <<drag_start_position, exact>>
  /\ UNCHANGED <<last_cursor_position, window>>

(* Variant of Released: only over the title bar.                           *)
ReleasedInTitleBar ==
  /\ is_dragging' = (is_dragging /\ ~InTitleBar)
  /\ UNCHANGED <<drag_start_position, last_cursor_position, window, exact>>

(* A release of the left button, and any other button, ends the drag.      *)
Released ==
  /\ is_dragging' = FALSE
  /\ UNCHANGED <<drag_start_position, last_cursor_position, window, exact>>

(* The events still waiting, once the handler is done with the first one.  *)
Rest ==
  [i \in 1..(Len(events) - 1) |->
     [kind |-> events[i + 1].kind, at |-> events[i + 1].at,
      fresh |-> events[i + 1].fresh /\ window' = window]]

Handles(kind) ==
  /\ events # <<>> /\ Head(events).kind = kind
  /\ CASE kind = "moved" -> Moved(Head(events).at)
       [] kind = "pressed" -> Pressed
       [] OTHER -> Released
  /\ events' = Rest
  /\ UNCHANGED <<cursor, held, lost>>

WindowSystem ==
  \/ \E row \in Screen : CursorMoves(row)
  \/ ButtonDown \/ ButtonUp \/ OtherButton \/ LoseCapture

DragNext == WindowSystem \/ \E kind \in Kinds : Handles(kind)

DragSpec == DragInit /\ [][DragNext]_dragVars

-----------------------------------------------------------------------------
(* The window follows the hand: once all events are handled, the point of  *)
(* the title bar that was taken is under the cursor - if the last position *)
(* the drag took was not out of date, in which case the window overshoots  *)
(* until the next move (componts.rs:82-92,102-105).                        *)
GrabFollows ==
  (is_dragging /\ events = <<>> /\ exact /\ ~lost) =>
    cursor - window = drag_start_position

(* A window is only dragged while the button is held: it does not stick to *)
(* the cursor, except after a release that went to another program, and    *)
(* then until a button is next pressed over it (componts.rs:102-113).      *)
NoStrayDrag == (is_dragging /\ events = <<>> /\ ~lost) => held

(* What makes the two inductive.  While the button is up, the waiting      *)
(* events end the drag, or there is none and none is about to start.       *)
Ends(e) == e.kind \in {"released", "other"}
NoPressAfter(i) == \A j \in (i + 1)..Len(events) : events[j].kind # "pressed"

DragIsEnding ==
  (~held /\ ~lost) =>
    \/ \E i \in 1..Len(events) : Ends(events[i]) /\ NoPressAfter(i)
    \/ ~is_dragging /\ NoPressAfter(0)

(* While it is down every move of the cursor is told: the newest event is  *)
(* where the cursor is.                                                    *)
NewestIsTrue ==
  (held /\ events # <<>>) =>
    LET e == events[Len(events)] IN e.fresh => e.at = cursor - window

DragInv ==
  /\ DragTypeOK
  /\ DragIsEnding
  /\ NewestIsTrue
  /\ GrabFollows
=============================================================================
