------------------------------- MODULE Shell -------------------------------
(***************************************************************************)
(* The main window: every press and release of the mouse goes through the  *)
(* handler of move_window first and is then propagated to Slint, where a   *)
(* release may be the click on a tab (Tabs) or on the maximise button of   *)
(* the title bar.  A drag of the title bar and the clicks on its buttons   *)
(* and on everything else are hence one stream of events.                  *)
(*                                                                         *)
(* App keeps a flag `fullscreen` for its layout, which is set to what      *)
(* maximize_window returns, while the window system may maximise or        *)
(* restore the window by itself; moving a maximised window restores it.    *)
(* Minimising, and opening and hiding the Setting window, are single calls *)
(* to the window system that leave nothing behind in the program.          *)
(***************************************************************************)
EXTENDS Drag, Tabs

VARIABLES
  maximized,   \* is_maximized()
  fullscreen   \* the property of App

frame == <<maximized, fullscreen>>
shellVars == <<dragVars, vars, frame>>

ShellTypeOK ==
  /\ DragTypeOK /\ TypeOK
  /\ maximized \in BOOLEAN /\ fullscreen \in BOOLEAN

ShellInit ==
  /\ DragInit /\ Init
  /\ maximized = FALSE /\ fullscreen = FALSE

(* maximize_windows: toggles, and returns whether it has maximised.        *)
MaximizeWindow ==
  /\ maximized' = ~maximized
  /\ fullscreen' = maximized'

(* A click by Slint's account of the release that was propagated to it.    *)
Click ==
  /\ Handles("released")
  /\ \/ Next /\ UNCHANGED frame
     \/ MaximizeWindow /\ UNCHANGED vars

SystemToggles ==
  /\ maximized' = ~maximized
  /\ UNCHANGED <<fullscreen, dragVars, vars>>

(* Anything else that happens to the window or its handler.                *)
Otherwise ==
  /\ DragNext
  /\ IF maximized /\ window' # window
     THEN maximized' = FALSE /\ UNCHANGED fullscreen
     ELSE UNCHANGED frame
  /\ UNCHANGED vars

ShellNext == Click \/ SystemToggles \/ Otherwise

ShellSpec == ShellInit /\ [][ShellNext]_shellVars
=============================================================================
