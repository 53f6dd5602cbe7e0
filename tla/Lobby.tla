-------------------------------- MODULE Lobby --------------------------------
(***************************************************************************)
(* The lobby of one tab: the list of sessions, fetched when the view is        *)
(* mounted, when its tab comes to the front and once an interval in between     *)
(* (composables/useLobby.ts), and the dialog that makes a new session           *)
(* (CreateSessionDialog.vue), whose request outlives it.                      *)
(*                                                                         *)
(* Requests are answered in any order.  A list is the number of sessions there  *)
(* were when the server read it.                                            *)
(***************************************************************************)
EXTENDS Naturals, Bags

CONSTANTS
  MaxSessions,  \* bound: sessions ever made
  MaxFetches,   \* bound: requests in flight
  MaxVisits     \* bound: lobbies mounted

VARIABLES
  tab,       \* [mounted, hidden, visits]
  poll,      \* [timer, listeners]: the interval, and visibilitychange handlers on the document
  fetches,   \* a bag of list requests: "sent", or the sessions read
  list,      \* [sessions, loading]
  made,      \* sessions on the server
  form,      \* the dialog: [open, named, seed, file, busy]
  posts      \* create requests in flight: those of the dialog that is open, and the rest

lobbyVars == <<tab, poll, fetches, list, made, form, posts>>

ClosedForm == [open |-> FALSE, named |-> FALSE, seed |-> "default", file |-> FALSE, busy |-> FALSE]
Unread == MaxSessions + 1

\* The requests of a dialog that is closed are answered to nobody.
Lost(p) == [its |-> 0, lost |-> p.its + p.lost]

InitLobby ==
  /\ tab = [mounted |-> FALSE, hidden |-> FALSE, visits |-> 0]
  /\ poll = [timer |-> FALSE, listeners |-> 0]
  /\ fetches = EmptyBag /\ list = [sessions |-> 0, loading |-> FALSE]
  /\ made = 0 /\ form = ClosedForm /\ posts = [its |-> 0, lost |-> 0]

----------------------------------------------------------------------------
(* The list. *)

Refresh ==
  /\ BagCardinality(fetches) < MaxFetches
  /\ fetches' = fetches (+) SetToBag({Unread})
  /\ list' = [list EXCEPT !.loading = TRUE]

\* onMounted, startPolling.  useLobby is called anew for each view, so nothing polls yet.
Mount ==
  /\ ~tab.mounted /\ tab.visits < MaxVisits
  /\ tab' = [tab EXCEPT !.mounted = TRUE, !.visits = @ + 1]
  /\ Refresh
  /\ poll' = [timer |-> poll.timer \/ ~tab.hidden, listeners |-> poll.listeners + 1]
  /\ UNCHANGED <<made, form, posts>>

\* onBeforeUnmount, stopPolling: by joining a session, or by any other way out.
StopTickingOnly(p) == [p EXCEPT !.timer = FALSE]
StopPolling(p) == [timer |-> FALSE, listeners |-> p.listeners - 1]

Unmount ==
  /\ tab.mounted
  /\ tab' = [tab EXCEPT !.mounted = FALSE]
  /\ poll' = StopPolling(poll)
  /\ form' = ClosedForm /\ posts' = Lost(posts)
  /\ UNCHANGED <<fetches, list, made>>

Hide ==
  /\ ~tab.hidden
  /\ tab' = [tab EXCEPT !.hidden = TRUE]
  /\ poll' = IF poll.listeners = 0 THEN poll ELSE [poll EXCEPT !.timer = FALSE]
  /\ UNCHANGED <<fetches, list, made, form, posts>>

Show ==
  /\ tab.hidden
  /\ tab' = [tab EXCEPT !.hidden = FALSE]
  /\ IF poll.listeners = 0 THEN UNCHANGED <<poll, fetches, list>>
     ELSE Refresh /\ poll' = [poll EXCEPT !.timer = TRUE]
  /\ UNCHANGED <<made, form, posts>>

Tick == poll.timer /\ Refresh /\ UNCHANGED <<tab, poll, made, form, posts>>

Read ==
  /\ BagIn(Unread, fetches)
  /\ fetches' = (fetches (-) SetToBag({Unread})) (+) SetToBag({made})
  /\ UNCHANGED <<tab, poll, list, made, form, posts>>

\* The refs of a view that has gone are nobody's any more.
Answer(n) ==
  /\ BagIn(n, fetches)
  /\ fetches' = fetches (-) SetToBag({n})
  /\ list' = [sessions |-> IF n = Unread THEN list.sessions ELSE n, loading |-> FALSE]
  /\ UNCHANGED <<tab, poll, made, form, posts>>

----------------------------------------------------------------------------
(* A new session. *)

Open ==
  /\ tab.mounted /\ ~form.open
  /\ form' = [ClosedForm EXCEPT !.open = TRUE]
  /\ UNCHANGED <<tab, poll, fetches, list, made, posts>>

Fill ==
  /\ form.open
  /\ \/ \E named \in BOOLEAN : form' = [form EXCEPT !.named = named]
     \/ \E seed \in {"default", "import"} : form' = [form EXCEPT !.seed = seed]
     \/ form.seed = "import" /\ form' = [form EXCEPT !.file = TRUE]
  /\ UNCHANGED <<tab, poll, fetches, list, made, posts>>

Cancel ==
  /\ form.open
  /\ form' = ClosedForm /\ posts' = Lost(posts)
  /\ UNCHANGED <<tab, poll, fetches, list, made>>

Send ==
  /\ form.open /\ form.named
  /\ made + posts.its + posts.lost < MaxSessions
  /\ posts' = [posts EXCEPT !.its = @ + 1]
  /\ form' = [form EXCEPT !.busy = TRUE]
  /\ UNCHANGED <<tab, poll, fetches, list, made>>

\* The button is off while it is busy, or has no file to import.  Enter in the name field
\* submits whatever the button says; without its file an import becomes a blank project.
Press == ~form.busy /\ (form.seed = "import" => form.file) /\ Send
Enter == Send

\* A creation is answered to the dialog that asked, which closes and joins, or shows the error.
Created ==
  /\ posts.its > 0
  /\ \/ /\ made' = made + 1
        /\ tab' = [tab EXCEPT !.mounted = FALSE] /\ poll' = StopPolling(poll)
        /\ form' = ClosedForm /\ posts' = Lost([posts EXCEPT !.its = @ - 1])
     \/ /\ form' = [form EXCEPT !.busy = FALSE]
        /\ posts' = [posts EXCEPT !.its = @ - 1]
        /\ UNCHANGED <<tab, poll, made>>
  /\ UNCHANGED <<fetches, list>>

CreatedForNobody ==
  /\ posts.lost > 0 /\ posts' = [posts EXCEPT !.lost = @ - 1]
  /\ made' \in {made, made + 1}
  /\ UNCHANGED <<tab, poll, fetches, list, form>>

NextLobby ==
  \/ Mount \/ Unmount \/ Hide \/ Show \/ Tick \/ Read
  \/ Open \/ Fill \/ Cancel \/ Press \/ Enter \/ Created \/ CreatedForNobody
  \/ \E n \in BagToSet(fetches) : Answer(n)

LobbySpec == InitLobby /\ [][NextLobby]_lobbyVars

----------------------------------------------------------------------------

\* "it stops entirely while the tab is hidden" (useLobby.ts): the list is polled exactly while
\* a lobby is mounted in a tab that can be seen, through whatever mounting, hiding and joining,
\* and one handler at most listens for the tab's coming and going.
PollsOnlyInSight ==
  /\ poll.timer = (tab.mounted /\ ~tab.hidden)
  /\ poll.listeners = (IF tab.mounted THEN 1 ELSE 0)
=============================================================================
