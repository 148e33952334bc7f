----------------------------- MODULE PageWatch -----------------------------
(***************************************************************************)
(* One watch of an extension over the pages of its tabs.  The worker keeps *)
(* the watch and attaches it to every page, tab after tab, and to a page   *)
(* that reports in later; the page's executor observes the document and    *)
(* reports each element once, across a restarted worker that attaches      *)
(* again.  A page that cannot watch says so, and the loop over the tabs    *)
(* ends there.  Calls may wait for the next report of a tab's page script. *)
(*                                                                         *)
(* Source: host/chrome/tabs/port.ts (worker), content.ts and executor.ts   *)
(* (page).  Tabs and messages are Chrome's: commands to one tab and        *)
(* reports to the worker arrive in order.  Every tab's address matches.    *)
(***************************************************************************)
EXTENDS Naturals, Sequences, FiniteSets

CONSTANTS
  Tab, Element,
  Call,         \* calls that wait for a page to report in
  NoTab,
  MaxLoads,     \* documents loaded in all
  MaxRestarts,  \* restarts of the worker
  MaxWatches,   \* times the watch is placed
  Overlap       \* whether watch and unwatch may run at once

VARIABLES
  live,       \* tab |-> its page script runs
  attached,   \* tab |-> the page has an observer for the watch
  shown,      \* tab |-> the elements of the document that can be read
  reported,   \* tab |-> the elements the page's executor has reported
  told,       \* tab |-> element |-> reports sent of it since the document loaded
  failed,     \* tab |-> its page could not watch when it was last told to
  inbox,      \* tab |-> commands on their way to the page
  outbox,     \* reports on their way to the worker
  watching,   \* the worker has the watch
  loop,       \* "watch" and "unwatch" |-> the tabs left and the one it awaits
  gaveUp,     \* a page that could not watch ended the loop of this watch
  waits,      \* call |-> where it stands
  loads, restarts, watches
pageVars == <<live, attached, shown, reported, told, failed, inbox, outbox, watching, loop, gaveUp,
              waits, loads, restarts, watches>>
pages == <<live, attached, shown, reported, told, failed>>
worker == <<watching, loop, gaveUp, waits>>
counts == <<loads, restarts, watches>>

Loops == {"watch", "unwatch"}
Idle == [left |-> {}, at |-> NoTab]
Waiting == {"unasked", "ready", "late"} \cup Tab

TypeOK ==
  /\ live \in [Tab -> BOOLEAN] /\ attached \in [Tab -> BOOLEAN] /\ failed \in [Tab -> BOOLEAN]
  /\ shown \in [Tab -> SUBSET Element] /\ reported \in [Tab -> SUBSET Element]
  /\ told \in [Tab -> [Element -> Nat]]
  /\ inbox \in [Tab -> Seq([kind : Loops, by : Loops \cup {"ready"}])]
  /\ outbox \in Seq([kind : {"ready", "element"}, tab : Tab])
  /\ watching \in BOOLEAN /\ gaveUp \in BOOLEAN
  /\ loop \in [Loops -> [left : SUBSET Tab, at : Tab \cup {NoTab}]]
  /\ waits \in [Call -> Waiting]

Init ==
  /\ live = [t \in Tab |-> FALSE] /\ attached = [t \in Tab |-> FALSE]
  /\ shown = [t \in Tab |-> {}] /\ reported = [t \in Tab |-> {}]
  /\ told = [t \in Tab |-> [x \in Element |-> 0]]
  /\ failed = [t \in Tab |-> FALSE]
  /\ inbox = [t \in Tab |-> <<>>] /\ outbox = <<>>
  /\ watching = FALSE /\ gaveUp = FALSE
  /\ loop = [k \in Loops |-> Idle]
  /\ waits = [c \in Call |-> "unasked"]
  /\ loads = 0 /\ restarts = 0 /\ watches = 0

(* The page *)

\* Elements that are ready and were not reported to this watch are reported now.
Report(t, visible, seen) ==
  LET new == visible \ seen
  IN /\ reported' = [reported EXCEPT ![t] = seen \cup new]
     /\ told' = [told EXCEPT ![t] = [x \in Element |-> @[x] + IF x \in new THEN 1 ELSE 0]]
     /\ outbox' = IF new = {} THEN outbox ELSE Append(outbox, [kind |-> "element", tab |-> t])

PageLoads(t) ==
  /\ loads < MaxLoads /\ loads' = loads + 1
  /\ live' = [live EXCEPT ![t] = TRUE]
  /\ attached' = [attached EXCEPT ![t] = FALSE]
  /\ shown' = [shown EXCEPT ![t] = {}] /\ reported' = [reported EXCEPT ![t] = {}]
  /\ told' = [told EXCEPT ![t] = [x \in Element |-> 0]]
  /\ failed' = [failed EXCEPT ![t] = FALSE]
  /\ outbox' = Append(outbox, [kind |-> "ready", tab |-> t])
  /\ UNCHANGED <<inbox, worker, restarts, watches>>

PageUnloads(t) ==
  /\ live[t]
  /\ live' = [live EXCEPT ![t] = FALSE] /\ attached' = [attached EXCEPT ![t] = FALSE]
  /\ UNCHANGED <<shown, reported, told, failed, inbox, outbox, worker, counts>>

\* A report goes through the matches in order; one that cannot be read ends it.
ReportSome(t, visible, seen) == \E through \in SUBSET visible : Report(t, through, seen)

\* The document changes: an element appears, or its required fields fill.
Mutates(t, x) ==
  /\ live[t] /\ x \notin shown[t]
  /\ shown' = [shown EXCEPT ![t] = @ \cup {x}]
  /\ IF attached[t] THEN ReportSome(t, shown'[t], reported[t]) ELSE UNCHANGED <<reported, told, outbox>>
  /\ UNCHANGED <<live, attached, failed, inbox, worker, counts>>

\* A mutant: a watch that is attached again starts from nothing.
WatchPageAfresh(t) ==
  attached' = [attached EXCEPT ![t] = TRUE] /\ Report(t, shown[t], {})

WatchPage(t) ==
  attached' = [attached EXCEPT ![t] = TRUE] /\ Report(t, shown[t], reported[t])

\* The page cannot watch: the observer it had is gone and there is no body to
\* observe, or it observes and its first report fails.
WatchFails(t) ==
  \/ attached' = [attached EXCEPT ![t] = FALSE] /\ UNCHANGED <<reported, told, outbox>>
  \/ attached' = [attached EXCEPT ![t] = TRUE] /\ ReportSome(t, shown[t], reported[t])

UnwatchPage(t) ==
  attached' = [attached EXCEPT ![t] = FALSE] /\ UNCHANGED <<reported, told, outbox>>

\* What the page does with a command; with no page script the send is refused,
\* which the worker takes for a page that reports in later.
RunsInPage(t, kind, fails) ==
  IF ~live[t] THEN UNCHANGED <<attached, reported, told, outbox, failed>>
  ELSE /\ failed' = [failed EXCEPT ![t] = fails]
       /\ \/ fails /\ WatchFails(t)
          \/ ~fails /\ kind = "watch" /\ WatchPage(t)
          \/ kind = "unwatch" /\ UnwatchPage(t)

\* The reply reaches the loop that awaits it: the next tab's turn, or, when the
\* page could not watch, the end of the loop over the tabs.
Replied(t, by, fails) ==
  IF by \in Loops /\ loop[by].at = t
  THEN IF fails THEN loop' = [loop EXCEPT ![by] = Idle] /\ gaveUp' = TRUE
                ELSE loop' = [loop EXCEPT ![by].at = NoTab] /\ UNCHANGED gaveUp
  ELSE UNCHANGED <<loop, gaveUp>>

\* The page runs the next command and replies.
Command(t) ==
  /\ inbox[t] # <<>>
  /\ inbox' = [inbox EXCEPT ![t] = Tail(@)]
  /\ LET c == Head(inbox[t]) IN
     \E fails \in BOOLEAN :
       /\ fails => live[t] /\ c.kind = "watch"
       /\ RunsInPage(t, c.kind, fails)
       /\ Replied(t, c.by, fails)
  /\ UNCHANGED <<live, shown, watching, waits, counts>>

(* The worker *)

MayStart(k) == loop[k] = Idle /\ (Overlap \/ \A j \in Loops : loop[j] = Idle)

\* A watch the worker knows is not attached again, whatever became of its loop.
Watch ==
  /\ ~watching /\ MayStart("watch")
  /\ watches < MaxWatches /\ watches' = watches + 1
  /\ watching' = TRUE /\ gaveUp' = FALSE
  /\ loop' = [loop EXCEPT !["watch"].left = Tab]
  /\ UNCHANGED <<pages, inbox, outbox, waits, loads, restarts>>

Unwatch ==
  /\ watching /\ MayStart("unwatch")
  /\ watching' = FALSE
  /\ loop' = [loop EXCEPT !["unwatch"].left = Tab]
  /\ UNCHANGED <<pages, inbox, outbox, gaveUp, waits, counts>>

Send(k) ==
  /\ loop[k].at = NoTab
  /\ \E t \in loop[k].left :
       /\ loop' = [loop EXCEPT ![k] = [left |-> @.left \ {t}, at |-> t]]
       /\ inbox' = [inbox EXCEPT ![t] = Append(@, [kind |-> k, by |-> k])]
  /\ UNCHANGED <<pages, outbox, watching, gaveUp, waits, counts>>

\* A mutant: a page that reports in is not attached.
AttachNever(t) == UNCHANGED inbox

Attach(t) ==
  inbox' = IF watching THEN [inbox EXCEPT ![t] = Append(@, [kind |-> "watch", by |-> "ready"])]
                       ELSE inbox

\* A page reports in: whoever waits for it is woken, and the watch is attached.
OnReady ==
  /\ outbox # <<>> /\ Head(outbox).kind = "ready"
  /\ LET t == Head(outbox).tab IN
     /\ waits' = [c \in Call |-> IF waits[c] = t THEN "ready" ELSE waits[c]]
     /\ Attach(t)
  /\ outbox' = Tail(outbox)
  /\ UNCHANGED <<pages, watching, loop, gaveUp, counts>>

\* An element is delivered to the watch the worker has, or to nobody.
OnElement ==
  /\ outbox # <<>> /\ Head(outbox).kind = "element"
  /\ outbox' = Tail(outbox)
  /\ UNCHANGED <<pages, inbox, worker, counts>>

AwaitReady(c, t) ==
  /\ waits[c] = "unasked"
  /\ waits' = [waits EXCEPT ![c] = t]
  /\ UNCHANGED <<pages, inbox, outbox, watching, loop, gaveUp, counts>>

\* The timer of a call runs out, or its caller aborts it; nobody else is woken.
GiveUp(c) ==
  /\ waits[c] \in Tab
  /\ waits' = [waits EXCEPT ![c] = "late"]
  /\ UNCHANGED <<pages, inbox, outbox, watching, loop, gaveUp, counts>>

\* The extension's worker is restarted: its watch, loops and calls are gone, the pages
\* stay, and nobody awaits the replies to what was sent.
WorkerRestarts ==
  /\ restarts < MaxRestarts /\ restarts' = restarts + 1
  /\ watching' = FALSE
  /\ loop' = [k \in Loops |-> Idle]
  /\ inbox' = [t \in Tab |-> [i \in DOMAIN inbox[t] |-> [inbox[t][i] EXCEPT !.by = "ready"]]]
  /\ waits' = [c \in Call |-> IF waits[c] \in Tab THEN "late" ELSE waits[c]]
  /\ UNCHANGED <<pages, outbox, gaveUp, loads, watches>>

Next ==
  \/ \E t \in Tab :
       PageLoads(t) \/ PageUnloads(t) \/ Command(t) \/ (\E x \in Element : Mutates(t, x))
  \/ Watch \/ Unwatch \/ (\E k \in Loops : Send(k))
  \/ OnReady \/ OnElement
  \/ \E c \in Call : GiveUp(c) \/ (\E t \in Tab : AwaitReady(c, t))
  \/ WorkerRestarts

Spec == Init /\ [][Next]_pageVars

(* Properties *)

\* A document reports an element to a watch at most once, though the watch is
\* taken away and attached again, by the same worker or a restarted one.
ReportedOnce == \A t \in Tab, x \in Element : told[t][x] <= 1

\* With the watch placed, its loops through and no message on its way, a page that
\* runs is watched, or could not watch when it was told to.
Followed(t) ==
  live[t] /\ inbox[t] = <<>> /\ (\A i \in DOMAIN outbox : outbox[i] # [kind |-> "ready", tab |-> t])
    => attached[t] \/ failed[t]

\* No page slips between the loop over the tabs and the reports of pages that came
\* up meanwhile, as long as no page ended the loop.
PagesFollowTheWatch ==
  watching /\ ~gaveUp /\ (\A k \in Loops : loop[k] = Idle) => \A t \in Tab : Followed(t)

\* The worker attaches to the matching open tabs now and to matching tabs that load
\* later (host-browser-tab-port.test.ts:184): one that cannot watch costs no other
\* tab its watch.  No run has it: in the code it does.
OnePageFailsAlone ==
  watching /\ (\A k \in Loops : loop[k] = Idle) => \A t \in Tab : Followed(t)
=============================================================================
