------------------------------- MODULE Dialogs -------------------------------
(***************************************************************************)
(* The page's questions and what is done with their answers: the queue that    *)
(* one DialogHost shows the head of (dialogs/useDialog.ts), the studio's         *)
(* questions about tracks and presets, and the preset library, whose windows     *)
(* and requests the questions are about.                                     *)
(*                                                                         *)
(* All prompts share one draft, and BaseModal traps no focus: the backdrop        *)
(* covers the page, but keys still press its buttons, so that a question may be   *)
(* asked while another waits.  A question's answer goes on in the microtask    *)
(* that follows, so answering and what is done with the answer are one step;     *)
(* requests to the server are separate, and are answered in any order.         *)
(***************************************************************************)
EXTENDS Naturals, Sequences, FiniteSets

CONSTANTS
  Slot,         \* tracks
  Preset,       \* the user's presets
  Word,         \* names one may type
  Blank,        \* an empty field: the default of a first name, and no name
  NoSlot,       \* null
  MaxAsked,     \* bound: questions ever asked
  MaxCalls      \* bound: requests in flight

VARIABLES
  queue,      \* questions, the one shown first: [n, variant, about, slot, preset], and crossed, a
              \* history: another prompt waited with this one, and nobody has typed in it since
  draft,      \* promptDraft
  own,        \* for each question, what was last written in its own field
  answers,    \* prompts answered: [n, ok, got, crossed]
  active,     \* activeTrackIndex
  touched,    \* tracks removed and reset by answers
  presets,    \* the server's, of those there were at first: preset -> its name
  library,    \* [open, rows, busy]: PresetLibraryModal
  calls       \* requests in flight: [op, preset, name]; a served list carries its rows

dialogVars == <<queue, draft, own, answers, active, touched, presets, library, calls>>

Asked == DOMAIN own
Rows == DOMAIN presets

InitDialogs ==
  /\ queue = << >> /\ draft = Blank /\ own = << >> /\ answers = {}
  /\ active \in Slot \cup {NoSlot} /\ touched = [removed |-> {}, reset |-> {}]
  /\ presets = [p \in Preset |-> Blank]
  /\ library = [open |-> FALSE, rows |-> {}, busy |-> NoSlot]
  /\ calls = {}

----------------------------------------------------------------------------
(* Asking. *)

DraftAlwaysReset(variant, default) == default
\* Only a prompt's default goes into the draft.
DraftAsked(variant, default) == IF variant = "prompt" THEN default ELSE draft

Crossed(variant) == [i \in DOMAIN queue |-> [queue[i] EXCEPT !.crossed = @ \/ variant = "prompt"]]

Ask(variant, about, slot, preset, default) ==
  /\ Len(own) < MaxAsked
  /\ queue' = Append(Crossed(variant),
                     [n |-> Len(own) + 1, variant |-> variant, about |-> about, slot |-> slot, preset |-> preset,
                      crossed |-> variant = "prompt" /\ \E i \in DOMAIN queue : queue[i].variant = "prompt"])
  /\ own' = Append(own, default)
  /\ draft' = DraftAsked(variant, default)

Quiet == UNCHANGED <<answers, active, touched, presets, library, calls>>

AskRemove(t) == active = NoSlot /\ Ask("confirm", "remove", t, NoSlot, Blank) /\ Quiet
AskReset == active # NoSlot /\ Ask("confirm", "reset", NoSlot, NoSlot, Blank) /\ Quiet
AskSave == active # NoSlot /\ Ask("prompt", "save", NoSlot, NoSlot, Blank) /\ Quiet

\* A load that failed, on its own time.
LoadFails == Ask("alert", "told", NoSlot, NoSlot, Blank) /\ Quiet

\* A row's buttons, which are off while the row is the busy one.
RowButton(p) == library.open /\ p \in library.rows /\ library.busy # p
AskRename(p) == RowButton(p) /\ p \in Rows /\ Ask("prompt", "rename", NoSlot, p, presets[p]) /\ Quiet
AskDelete(p) == RowButton(p) /\ Ask("confirm", "delete", NoSlot, p, Blank) /\ Quiet

Type(word) ==
  /\ queue # << >> /\ Head(queue).variant = "prompt"
  /\ draft' = word /\ own' = [own EXCEPT ![Head(queue).n] = word]
  /\ queue' = [queue EXCEPT ![1].crossed = FALSE] /\ Quiet

----------------------------------------------------------------------------
(* Answering. *)

Call(op, preset, name) == [op |-> op, preset |-> preset, name |-> name, rows |-> {}]

\* What the asker does with the answer; a blank name is no name.
Mutation(q, ok) ==
  IF ~ok THEN {}
  ELSE CASE q.about = "rename" -> IF draft = Blank THEN {} ELSE {Call("patch", q.preset, draft)}
         [] q.about = "delete" -> {Call("delete", q.preset, Blank)}
         [] q.about = "save"   -> IF draft = Blank \/ active = NoSlot THEN {}
                                  ELSE {Call("create", NoSlot, draft)}
         [] OTHER -> {}

Resolve(ok) ==
  LET q == Head(queue)
      m == Mutation(q, ok)
  IN /\ queue # << >> /\ Cardinality(calls \cup m) <= MaxCalls
     /\ queue' = Tail(queue)
     /\ answers' = IF q.variant = "prompt" THEN answers \cup {[n |-> q.n, ok |-> ok, got |-> draft, crossed |-> q.crossed]} ELSE answers
     /\ calls' = calls \cup m
     /\ touched' = [removed |-> IF ok /\ q.about = "remove" THEN touched.removed \cup {q.slot} ELSE touched.removed,
                    reset   |-> IF ok /\ q.about = "reset" /\ active # NoSlot
                                THEN touched.reset \cup {active} ELSE touched.reset]
     /\ UNCHANGED <<draft, own, active, presets>>

\* mutate marks its row busy, in place of whichever was.
Busied(q, ok) == IF Mutation(q, ok) # {} /\ q.preset # NoSlot THEN q.preset ELSE library.busy

Press(ok) ==
  /\ Resolve(ok)
  /\ library' = [library EXCEPT !.busy = Busied(Head(queue), ok)]

\* Escape closes every modal that is up: an alert counts as read, a question as refused.
Escape ==
  /\ Resolve(Head(queue).variant = "alert")
  /\ library' = [library EXCEPT !.open = FALSE,
                                !.busy = Busied(Head(queue), Head(queue).variant = "alert")]

----------------------------------------------------------------------------
(* The library. *)

Refetch == calls \cup {Call("list", NoSlot, Blank)}

OpenLibrary ==
  /\ ~library.open /\ Cardinality(Refetch) <= MaxCalls
  /\ library' = [library EXCEPT !.open = TRUE] /\ calls' = Refetch
  /\ UNCHANGED <<queue, draft, own, answers, active, touched, presets>>

CloseLibrary ==
  /\ library.open
  /\ library' = [library EXCEPT !.open = FALSE]
  /\ UNCHANGED <<queue, draft, own, answers, active, touched, presets, calls>>

\* togglePublic asks nothing.
Toggle(p) ==
  /\ RowButton(p) /\ Cardinality(calls \cup {Call("toggle", p, Blank)}) <= MaxCalls
  /\ library' = [library EXCEPT !.busy = p] /\ calls' = calls \cup {Call("toggle", p, Blank)}
  /\ UNCHANGED <<queue, draft, own, answers, active, touched, presets>>

\* The server's part.  What is asked of a preset that has gone is refused (Failed).
Serve(c) ==
  /\ c.op \in {"list", "patch", "toggle", "delete"}
  /\ c.op # "list" => c.preset \in Rows
  /\ presets' = CASE c.op = "patch"  -> [presets EXCEPT ![c.preset] = c.name]
                  [] c.op = "delete" -> [p \in Rows \ {c.preset} |-> presets[p]]
                  [] OTHER -> presets
  /\ calls' = (calls \ {c}) \cup
       {IF c.op = "list" THEN [c EXCEPT !.op = "listed", !.rows = Rows] ELSE [c EXCEPT !.op = "done"]}
  /\ UNCHANGED <<queue, draft, own, answers, active, touched, library>>

\* After a mutation the list is asked for again, and the row is free once that has ended too.
Freed(c) == IF c.preset = NoSlot THEN library.busy ELSE NoSlot

Answered(c) ==
  /\ c.op \in {"listed", "done"}
  /\ calls' = (calls \ {c}) \cup (IF c.op = "done" THEN {Call("list", c.preset, Blank)} ELSE {})
  /\ library' = IF c.op = "listed" THEN [library EXCEPT !.rows = c.rows, !.busy = Freed(c)] ELSE library
  /\ UNCHANGED <<queue, draft, own, answers, active, touched, presets>>

\* A call fails; a saved preset is told of whether it did or not.
Failed(c) ==
  /\ calls' = calls \ {c}
  /\ library' = [library EXCEPT !.busy = Freed(c)]
  /\ IF c.op = "create" THEN Ask("alert", "told", NoSlot, NoSlot, Blank)
     ELSE UNCHANGED <<queue, draft, own>>
  /\ UNCHANGED <<answers, active, touched, presets>>

\* A peer's removal or the browser's history puts another track into the editor.
Refocus(t) ==
  /\ active' = t
  /\ UNCHANGED <<queue, draft, own, answers, touched, presets, library, calls>>

NextDialogs ==
  \/ \E t \in Slot : AskRemove(t)
  \/ \E p \in Preset : AskRename(p) \/ AskDelete(p) \/ Toggle(p)
  \/ \E word \in Word : Type(word)
  \/ \E ok \in BOOLEAN : Press(ok)
  \/ \E c \in calls : Serve(c) \/ Answered(c) \/ Failed(c)
  \/ \E t \in Slot \cup {NoSlot} : Refocus(t)
  \/ AskReset \/ AskSave \/ LoadFails \/ Escape \/ OpenLibrary \/ CloseLibrary

DialogsSpec == InitDialogs /\ [][NextDialogs]_dialogVars

----------------------------------------------------------------------------

\* What useDialog.ts:5 says of two prompts: what a prompt hands its asker is what was written in its
\* own field, or the default it came with.
PromptsKeepApart == \A a \in answers : a.ok => a.got = own[a.n]

\* The same of a prompt that was typed in since another waited with it, or was never crossed:
\* however alerts, confirmations and escapes queue up with it, its text is its own.
AnswersAreOnesOwn == \A a \in answers : a.ok /\ ~a.crossed => a.got = own[a.n]
=============================================================================
