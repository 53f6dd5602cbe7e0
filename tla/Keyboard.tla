------------------------------- MODULE Keyboard -------------------------------
(***************************************************************************)
(* The page's keys (keyboard/KeyboardService.ts): commands are registered by    *)
(* the page for good (AppRuntime.ts) and by the studio for as long as it is      *)
(* mounted (useKeyboardCommand.ts, trackerCommands.ts), and one keydown runs one  *)
(* of them at most.  Two more listeners hear Escape: a dialog's and the          *)
(* sidebar's.  The page may be frozen and thawed by the browser (main.ts).       *)
(*                                                                         *)
(* A key stands for a key with its modifiers.  A key held down repeats.  What    *)
(* the commands do to the steps is Tracker's matter; here a selection is there,   *)
(* or there but not valid in the project as it is, or not.                     *)
(***************************************************************************)
EXTENDS Naturals

CONSTANT MaxVisits   \* bound: studios ever mounted

VARIABLES
  page,        \* [view, visits, focused, awake]: focused is whether the editor shows a track
  service,     \* [listening, registered]: registered are [cmd, visit], visit 0 the page's own
  overlay,     \* [dialog, sidebar]
  inField,     \* whether an input of the page has the focus
  selection,   \* "none", "valid" or "stale"
  clipboard,   \* whether any steps were copied
  history,     \* [undo, redo]: canUndo, canRedo
  held         \* the key that is down: [key, met], met if its press met a dialog

keyboardVars == <<page, service, overlay, inField, selection, clipboard, history, held>>

Steps == <<selection, clipboard, history>>

Command(id, context, keys, repeats, anywhere) ==
  [id |-> id, context |-> context, keys |-> keys, allowRepeat |-> repeats, focusIndependent |-> anywhere]

DeselectRepeating == Command("deselect", "tracker", {"escape"}, TRUE, FALSE)
Deselect == Command("deselect", "tracker", {"escape"}, FALSE, FALSE)

GlobalCommands ==
  { Command("undo", "global", {"mod+z"}, TRUE, TRUE),
    Command("redo", "global", {"shift+mod+z", "mod+y"}, TRUE, TRUE) }

TrackerCommands ==
  { Command("copy", "tracker", {"mod+c"}, FALSE, FALSE),
    Command("cut", "tracker", {"mod+x"}, FALSE, FALSE),
    Command("clear", "tracker", {"delete", "backspace"}, FALSE, FALSE),
    Command("paste", "tracker", {"mod+v"}, FALSE, FALSE),
    Command("cursorUp", "tracker", {"arrowup"}, TRUE, FALSE),
    Command("cursorDown", "tracker", {"arrowdown"}, TRUE, FALSE),
    Command("extendUp", "tracker", {"shift+arrowup"}, TRUE, FALSE),
    Command("extendDown", "tracker", {"shift+arrowdown"}, TRUE, FALSE),
    Deselect,
    Command("toggleMute", "tracker", {"m"}, FALSE, FALSE),
    Command("moveUp", "tracker", {"alt+arrowup"}, TRUE, FALSE),
    Command("moveDown", "tracker", {"alt+arrowdown"}, TRUE, FALSE) }

Keys == UNION {c.keys : c \in GlobalCommands \cup TrackerCommands}
NoKey == [key |-> "none", met |-> FALSE]

Registrations(cmds, visit) == {[cmd |-> c, visit |-> visit] : c \in cmds}

InitKeyboard ==
  /\ page = [view |-> "elsewhere", visits |-> 0, focused |-> FALSE, awake |-> TRUE]
  /\ service = [listening |-> TRUE, registered |-> Registrations(GlobalCommands, 0)]
  /\ overlay = [dialog |-> FALSE, sidebar |-> FALSE] /\ inField = FALSE
  /\ selection = "none" /\ clipboard = FALSE /\ history = [undo |-> FALSE, redo |-> FALSE]
  /\ held = NoKey

----------------------------------------------------------------------------
(* Registering. *)

\* register throws if a command of its context has one of its keys.
Conflicts(c) ==
  \E r \in service.registered : r.cmd.context = c.context /\ r.cmd.keys \cap c.keys # {}

\* Setup registers one after another; it ends at the first conflict, before anything is registered
\* if that is with a studio's commands.
MountStudio ==
  /\ page.awake /\ page.view # "studio" /\ page.visits < MaxVisits
  /\ page' = [page EXCEPT !.view = "studio", !.visits = @ + 1]
  /\ service' = IF \E c \in TrackerCommands : Conflicts(c) THEN service
                ELSE [service EXCEPT !.registered = @ \cup Registrations(TrackerCommands, page'.visits)]
  /\ UNCHANGED <<overlay, inField, selection, clipboard, history, held>>

\* onScopeDispose.
Kept(registered, visit) == registered
Disposed(registered, visit) == {r \in registered : r.visit # visit}

UnmountStudio ==
  /\ page.awake /\ page.view = "studio"
  /\ page' = [page EXCEPT !.view = "elsewhere", !.focused = FALSE]
  /\ service' = [service EXCEPT !.registered = Disposed(@, page.visits)]
  /\ inField' = FALSE
  /\ UNCHANGED <<overlay, selection, clipboard, history, held>>

\* pagehide: shutdown() disposes the keyboard, and nothing registers again when the browser
\* brings the page back.
PageHide ==
  /\ page.awake
  /\ page' = [page EXCEPT !.awake = FALSE] /\ held' = NoKey
  /\ service' = [listening |-> FALSE, registered |-> {}]
  /\ UNCHANGED <<overlay, inField, selection, clipboard, history>>

PageShow ==
  /\ ~page.awake /\ page' = [page EXCEPT !.awake = TRUE]
  /\ UNCHANGED <<service, overlay, inField, selection, clipboard, history, held>>

----------------------------------------------------------------------------
(* A keydown. *)

IsEnabled(id) ==
  CASE id = "undo" -> history.undo
    [] id = "redo" -> history.redo
    [] id = "paste" -> clipboard /\ selection = "valid"
    [] id \in {"cursorUp", "cursorDown"} -> selection = "valid" \/ page.focused
    [] id = "deselect" -> selection # "none"
    [] OTHER -> selection = "valid"

\* The guards of handleKeydown: no dialog up, a repeat and a field only for commands that take them.
Matches(k, repeat) ==
  {r \in service.registered :
     /\ service.listening /\ ~overlay.dialog
     /\ repeat => r.cmd.allowRepeat
     /\ inField => r.cmd.focusIndependent
     /\ k \in r.cmd.keys /\ IsEnabled(r.cmd.id)}

\* The tracker's commands come before the page's.
Winners(k, repeat) ==
  LET m == Matches(k, repeat)
      t == {r \in m : r.cmd.context = "tracker"}
  IN IF t # {} THEN t ELSE m

\* An edit is recorded, unless it changed nothing.
Edits == history' \in {history, [undo |-> TRUE, redo |-> FALSE]}

Run(id) ==
  CASE id \in {"undo", "redo"} ->
         /\ history' \in {h \in [undo : BOOLEAN, redo : BOOLEAN] : IF id = "undo" THEN h.redo ELSE h.undo}
         /\ selection' \in (IF selection = "none" THEN {"none"} ELSE {"valid", "stale"})
         /\ UNCHANGED clipboard
    [] id = "copy" -> clipboard' = TRUE /\ UNCHANGED <<selection, history>>
    [] id = "cut" -> clipboard' = TRUE /\ Edits /\ UNCHANGED selection
    [] id \in {"clear", "paste", "toggleMute", "moveUp", "moveDown"} ->
         Edits /\ UNCHANGED <<selection, clipboard>>
    [] id = "deselect" -> selection' = "none" /\ UNCHANGED <<clipboard, history>>
    [] OTHER -> selection' = "valid" /\ UNCHANGED <<clipboard, history>>

\* The service listens from before any dialog does, and finds in place what the others then
\* close; behind a dialog that closes, the next question may be waiting.
Keydown(k, repeat) ==
  /\ page.awake
  /\ IF Winners(k, repeat) = {} THEN UNCHANGED Steps
     ELSE \E r \in Winners(k, repeat) : Run(r.cmd.id)
  /\ overlay' \in IF k # "escape" THEN {overlay}
                  ELSE {[dialog |-> next, sidebar |-> FALSE] : next \in {FALSE, overlay.dialog}}
  /\ UNCHANGED <<page, service, inField>>

Press(k) ==
  /\ held = NoKey /\ Keydown(k, FALSE)
  /\ held' = [key |-> k, met |-> overlay.dialog]

Repeat == held # NoKey /\ Keydown(held.key, TRUE) /\ UNCHANGED held

Release ==
  /\ held # NoKey /\ held' = NoKey
  /\ UNCHANGED <<page, service, overlay, inField, selection, clipboard, history>>

----------------------------------------------------------------------------
(* The pointer, and the rest of the page. *)

\* useDeselectOnInputFocus: only a selection that is valid is cleared.
FocusField ==
  /\ page.awake /\ ~overlay.dialog /\ ~inField
  /\ inField' = TRUE
  /\ selection' = IF page.view = "studio" /\ selection = "valid" THEN "none" ELSE selection
  /\ UNCHANGED <<page, service, overlay, clipboard, history, held>>

\* useClickOutsideDeselect, for a press anywhere but in a track's card.
PressElsewhere ==
  /\ page.awake /\ ~overlay.dialog
  /\ inField' = FALSE
  /\ selection' = IF page.view = "studio" /\ selection = "valid" THEN "none" ELSE selection
  /\ UNCHANGED <<page, service, overlay, clipboard, history, held>>

PressStep ==
  /\ page.awake /\ page.view = "studio" /\ ~overlay.dialog
  /\ inField' = FALSE /\ selection' = "valid"
  /\ UNCHANGED <<page, service, overlay, clipboard, history, held>>

\* A dialog comes up and is answered, the sidebar opens, the editor turns to a track or away;
\* peers' edits make a selection valid or stale, and the player's own go into the history.
Elsewhere ==
  /\ page.awake
  /\ \/ /\ overlay' \in [dialog : BOOLEAN, sidebar : BOOLEAN]
        /\ UNCHANGED <<page, inField, selection, history>>
     \/ /\ page.view = "studio" /\ page' = [page EXCEPT !.focused = ~@]
        /\ UNCHANGED <<overlay, inField, selection, history>>
     \/ /\ selection # "none" /\ selection' \in {"valid", "stale"}
        /\ UNCHANGED <<page, overlay, inField, history>>
     \/ /\ history' \in {[undo |-> TRUE, redo |-> FALSE], [undo |-> FALSE, redo |-> FALSE]}
        /\ UNCHANGED <<page, overlay, inField, selection>>
  /\ UNCHANGED <<service, clipboard, held>>

NextKeyboard ==
  \/ MountStudio \/ UnmountStudio \/ PageHide \/ PageShow
  \/ \E k \in Keys : Press(k)
  \/ Repeat \/ Release \/ FocusField \/ PressElsewhere \/ PressStep \/ Elsewhere

KeyboardSpec == InitKeyboard /\ [][NextKeyboard]_keyboardVars

----------------------------------------------------------------------------

CommandsAreViews ==
  service.registered =
    Registrations(GlobalCommands, 0) \cup
    (IF page.view = "studio" THEN Registrations(TrackerCommands, page.visits) ELSE {})

\* Until the page is first hidden, the commands there are are the page's own and those of the
\* studio that is mounted now: none is missing after the studio has been left and entered
\* again, and none answers for a studio that has gone.
CommandsFollowView == service.listening => CommandsAreViews

\* "register command(s) for the lifetime of the current effect scope" (useKeyboardCommand.ts):
\* a page that is awake has them, one that the browser brings back among them.
CommandsOutlastFreeze == page.awake => CommandsAreViews

\* A key that met a dialog changes nothing behind it: not while the dialog is up, and when it is
\* the key that closed the dialog not by repeating afterwards either.
MetDialog == overlay.dialog \/ (held.met /\ held.key = "escape")

BehindDialog == MetDialog /\ (Repeat \/ \E k \in Keys : Press(k)) => UNCHANGED Steps

DialogKeepsItsKeys == [][BehindDialog]_keyboardVars
=============================================================================
