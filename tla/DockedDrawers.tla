---------------------------- MODULE DockedDrawers ----------------------------
(***************************************************************************)
(* The docked drawers of components/ui/drawer.tsx, on the page whose       *)
(* sidebar module Sidebar models: at most one open under each parent, the  *)
(* page padded by the width of the ones that push it, the sidebar          *)
(* collapsed while any is open, and the drag of a panel's edge.            *)
(*                                                                         *)
(* Owners, pointer and window act first (want, drag, innerWidth); then     *)
(* React renders and commits (Commit: shown), then runs the effects whose  *)
(* dependencies changed, every cleanup before any new effect (Effects:     *)
(* ran).  The updates of effects are rendered in a later task, so anything *)
(* may happen in between.  Base UI's drawer is external: close() offers    *)
(* the change to the owner, who may cancel it, and a popup that was closed *)
(* stays in the page until its animation has ended (Exit).                 *)
(***************************************************************************)
EXTENDS Sidebar, FiniteSets, Functions

CONSTANTS
  Drawer,       \* the docked drawers of the page
  TopLevel,     \* TOP_LEVEL_PARENT
  Parent,       \* the drawer each is rendered in, or TopLevel
  FirstOpen,    \* the sets of drawers a page may mount open
  Stubborn,     \* those whose owner cancels an imperative close
  Width,        \* the widths the caller of each may ask for, in px
  DragTo,       \* the widths the teacher's pointer may ask of each, in px
  NoDrawer,     \* no panel's edge is held
  MaxQueued     \* bound: how many components may await a render at an event

ASSUME DrawerAssumption ==
  /\ IsFiniteSet(Drawer)
  /\ TopLevel \notin Drawer /\ NoDrawer \notin Drawer
  /\ Parent \in [Drawer -> Drawer \cup {TopLevel}]
  /\ \A d \in Drawer : Parent[d] # TopLevel => Parent[Parent[d]] = TopLevel
  /\ FirstOpen \subseteq SUBSET {d \in Drawer : Parent[d] = TopLevel}
  /\ Stubborn \subseteq Drawer
  /\ Width \in [Drawer -> SUBSET (Nat \ {0})] /\ \A d \in Drawer : Width[d] # {}
  /\ DragTo \in [Drawer -> SUBSET Int]
  /\ MaxQueued \in Nat

VARIABLES
  want,               \* what the owner and the drag ask of each drawer
  shown,              \* what its last render showed
  ran,                \* what its effects last ran with
  openDockedDrawers,  \* the drawers registered with their parent's group
  dockedWidths,       \* the px each has registered, 0 for none
  present,            \* the drawers whose popup is in the page
  drag,               \* the drawer whose edge the pointer holds
  cursor,             \* the cursor of <body>: the page's own or the handle's
  dockedOver,         \* history: the sidebar the current docking began with
  spared              \* history: drawers reopened while being closed

drawerVars == <<want, shown, ran, openDockedDrawers, dockedWidths, present, drag, cursor>>
history == <<dockedOver, spared>>
vars == <<sidebarVars, drawerVars, history>>

MinWidth == 320       \* DOCKED_DRAWER_MIN_WIDTH
MaxWidth == 1080      \* DOCKED_DRAWER_MAX_WIDTH
MinPageWidth == 320   \* MIN_PAGE_WIDTH
Inset == 8            \* DOCKED_DRAWER_INSET

Least(a, b) == IF a < b THEN a ELSE b
Greatest(a, b) == IF a > b THEN a ELSE b

ClampDockedWidth(width) ==
  Least(Greatest(MinWidth, Least(MaxWidth, innerWidth - MinPageWidth)),
        Greatest(MinWidth, width))

\* `dragged' is draggedWidth, 0 for null.
Wanted  == [open : BOOLEAN, width : Nat, dragged : Nat]
Painted == [open : BOOLEAN, width : Nat, dragged : Nat, mobile : BOOLEAN]

ResolvedWidth(s) == IF s.dragged # 0 THEN s.dragged ELSE s.width
\* A bug: a drawer that covers the page is registered as if it pushed it.
PushesPageAnywhere(d, s) == Parent[d] = TopLevel /\ s.open

PushesPage(d, s) == Parent[d] = TopLevel /\ s.open /\ ~s.mobile
Docks(s) == s.open /\ ~s.mobile

\* A drawer inside another's panel exists while that panel is in the page.
Mounted == {d \in Drawer : Parent[d] = TopLevel \/ Parent[d] \in present}

Siblings(d, group) == {e \in group : Parent[e] = Parent[d] /\ e # d}

\* What a render would show that the last one does not.
Queued(d) == [open |-> shown[d].open, width |-> shown[d].width,
              dragged |-> shown[d].dragged] # want[d]
QueuedDrawers == {d \in Mounted : Queued(d)}
StaleDrawers == {d \in Mounted : shown[d].mobile # Mobile(innerWidth)}
NavQueued == nav # [open |-> navShown.open, tabletExpanded |-> navShown.tabletExpanded,
                    openMobile |-> navShown.openMobile]
NavStale == navShown.layout # Layout(innerWidth)

\* The browser reports every media query before it dispatches another event.
MediaHeard == StaleDrawers = {} /\ ~NavStale
EffectsRan == ran = shown
Settled == EffectsRan /\ MediaHeard /\ QueuedDrawers = {} /\ ~NavQueued

Asks(open, width) == [open |-> open, width |-> width, dragged |-> 0]
Paints(w, mobile) ==
  [open |-> w.open, width |-> w.width, dragged |-> w.dragged, mobile |-> mobile]

\* A page that has just rendered, some drawers of it mounted open.
FirstWanted(openings, widths) == [d \in Drawer |-> Asks(d \in openings, widths[d])]
FirstShown(wanted) == [d \in Drawer |-> Paints(wanted[d], Mobile(innerWidth))]

\* No effect has run yet: what they ran with is a page with nothing open.
FirstRan(widths) ==
  [d \in Drawer |-> Paints(Asks(FALSE, widths[d]), Mobile(innerWidth))]

\* The first of its widths a caller asks for is any of them.
FirstWidths == {w \in [Drawer -> UNION {Width[d] : d \in Drawer}] :
                  \A d \in Drawer : w[d] \in Width[d]}

Init ==
  /\ SidebarInit
  /\ \E openings \in FirstOpen, widths \in FirstWidths :
       /\ want = FirstWanted(openings, widths)
       /\ shown = FirstShown(FirstWanted(openings, widths))
       /\ ran = FirstRan(widths)
       /\ present = openings
  /\ openDockedDrawers = {}
  /\ dockedWidths = [d \in Drawer |-> 0]
  /\ drag = NoDrawer
  /\ cursor = "page"
  /\ dockedOver = "unclear"
  /\ spared = {}

Reload ==
  /\ SidebarReload
  /\ \E openings \in FirstOpen, widths \in FirstWidths :
       /\ want' = FirstWanted(openings, widths)
       /\ shown' = FirstShown(FirstWanted(openings, widths))
       /\ ran' = FirstRan(widths)
       /\ present' = openings
  /\ openDockedDrawers' = {}
  /\ dockedWidths' = [d \in Drawer |-> 0]
  /\ drag' = NoDrawer
  /\ cursor' = "page"
  /\ dockedOver' = "unclear"
  /\ spared' = {}

-----------------------------------------------------------------------------
(***************************************************************************)
(* Owners, pointer and window.                                             *)
(***************************************************************************)
Resize ==
  /\ \E width \in InnerWidth : ResizeWindow(width)
  /\ UNCHANGED <<drawerVars, history>>

Toggle ==
  /\ ToggleSidebar
  /\ dockedOver' = IF navShown.layout # "desktop" THEN dockedOver
                   ELSE IF docking.count = 0 THEN "unclear" ELSE "toggled"
  /\ UNCHANGED <<drawerVars, spared>>

Dismiss ==
  /\ CloseSheet
  /\ UNCHANGED <<drawerVars, history>>

Open(d) ==
  /\ d \in Mounted
  /\ ~want[d].open
  /\ want' = [want EXCEPT ![d].open = TRUE]
  /\ spared' = IF shown[d].open /\ Siblings(d, Drawer) # {} THEN spared \cup {d} ELSE spared
  /\ UNCHANGED <<sidebarVars, shown, ran, openDockedDrawers, dockedWidths, present,
                 drag, cursor, dockedOver>>

Close(d) ==
  /\ d \in Mounted
  /\ want[d].open
  /\ want' = [want EXCEPT ![d].open = FALSE]
  /\ UNCHANGED <<sidebarVars, shown, ran, openDockedDrawers, dockedWidths, present,
                 drag, cursor, history>>

\* The caller names a width of its own.
SetWidth(d, width) ==
  /\ d \in Mounted
  /\ want[d].width # width
  /\ want' = [want EXCEPT ![d].width = width]
  /\ UNCHANGED <<sidebarVars, shown, ran, openDockedDrawers, dockedWidths, present,
                 drag, cursor, history>>

\* The handle is hidden below `lg'; a panel that is sliding out still has it.
StartDrag(d) ==
  /\ d \in present /\ ~Mobile(innerWidth) /\ DragTo[d] # {}
  /\ drag = NoDrawer
  /\ drag' = d
  /\ cursor' = "col-resize"
  /\ UNCHANGED <<sidebarVars, want, shown, ran, openDockedDrawers, dockedWidths, present,
                 history>>

(***************************************************************************)
(* The width asked is the panel's when the drag began, less the way the    *)
(* pointer has come since: as the pointer may be anywhere, any width.      *)
(***************************************************************************)
MoveDrag(width) ==
  /\ drag # NoDrawer /\ width \in DragTo[drag]
  /\ want' = [want EXCEPT ![drag].dragged = ClampDockedWidth(width)]
  /\ UNCHANGED <<sidebarVars, shown, ran, openDockedDrawers, dockedWidths, present,
                 drag, cursor, history>>

EndDrag ==
  /\ drag # NoDrawer
  /\ drag' = NoDrawer
  /\ cursor' = "page"
  /\ UNCHANGED <<sidebarVars, want, shown, ran, openDockedDrawers, dockedWidths, present,
                 history>>

-----------------------------------------------------------------------------
(***************************************************************************)
(* React.                                                                  *)
(***************************************************************************)
\* The drag is forgotten when the panel opens again or its caller's width changes.
Forgets(d) ==
  \/ want[d].open /\ ~shown[d].open
  \/ want[d].width # shown[d].width

RenderedWant(d) == IF Forgets(d) THEN [want[d] EXCEPT !.dragged = 0] ELSE want[d]

\* The end of a closed panel's animation matters if it holds a drawer or the pointer.
Lingers(d) == drag = d \/ \E e \in Drawer : Parent[e] = d

(***************************************************************************)
(* One render and commit: every component with an update of its state, and *)
(* any of those whose media query has changed (`heard', and the sidebar    *)
(* when navHeard).  A panel that appears mounts the drawers inside it.     *)
(***************************************************************************)
Commit ==
  /\ EffectsRan
  /\ \E heard \in SUBSET StaleDrawers, navHeard \in {NavQueued, NavQueued \/ NavStale} :
       LET opening  == {d \in QueuedDrawers : want[d].open} \ present
           mounting == {d \in Drawer : Parent[d] \in opening}
           rendered == QueuedDrawers \cup heard \cup mounting
       IN  /\ rendered # {} \/ navHeard
           /\ IF navHeard THEN RenderNav ELSE UNCHANGED navShown
           /\ want' = [d \in Drawer |-> IF d \in rendered THEN RenderedWant(d) ELSE want[d]]
           /\ shown' = [d \in Drawer |->
                          IF d \in rendered THEN Paints(RenderedWant(d), Mobile(innerWidth))
                                            ELSE shown[d]]
           /\ present' = {d \in present \cup opening : want[d].open \/ Lingers(d)}
           /\ spared' = {d \in spared :
                            want[d].open /\ \E e \in Siblings(d, Drawer) : want[e].open}
  /\ UNCHANGED <<innerWidth, cookie, nav, docking, ran, openDockedDrawers, dockedWidths,
                 drag, cursor, dockedOver>>

\* A bug: the effect does not depend on the layout.
RedockedIfOpened == {d \in Drawer : ran[d].open # shown[d].open}

\* The drawers whose registration with the sidebar has new dependencies.
Redocked == {d \in Drawer : <<ran[d].open, ran[d].mobile>> # <<shown[d].open, shown[d].mobile>>}

\* The drawers whose exclusivity effect runs because they opened.
Opened == {d \in Drawer : shown[d].open /\ ~ran[d].open}
Shut   == {d \in Drawer : ran[d].open /\ ~shown[d].open}

(***************************************************************************)
(* Each drawer that opens registers, then closes every sibling registered  *)
(* by then: all but the last to run, in whatever order the effects run.    *)
(***************************************************************************)
LastOpened == {last \in SUBSET Opened :
                 \A d \in Opened : \E e \in last : {f \in last : Parent[f] = Parent[d]} = {e}}

Registered == (openDockedDrawers \ Shut) \cup Opened

\* A bug: only the drawers that open together close one another.
AskedOfNewcomers(last) == UNION {Siblings(d, Opened) : d \in last}

AskedToClose(last) == UNION {Siblings(d, Registered) : d \in last}

\* A docking that begins is put down with the sidebar it begins over, if that is known.
DockingHistory(leaving, joining) ==
  IF docking.count = leaving /\ joining > 0
  THEN IF ~NavUpToDate \/ DockedLeave(leaving).restore THEN "unclear"
       ELSE IF nav.open THEN "open" ELSE "closed"
  ELSE IF docking.count = leaving /\ dockedOver = "toggled" THEN "unclear" ELSE dockedOver

Effects ==
  /\ ~EffectsRan
  /\ ran' = shown
  /\ openDockedDrawers' = Registered
  /\ \E last \in LastOpened :
       /\ want' = [d \in Drawer |-> IF d \in AskedToClose(last) \ Stubborn
                                    THEN [want[d] EXCEPT !.open = FALSE] ELSE want[d]]
       /\ spared' = spared \cup {d \in AskedToClose(last) \cap Stubborn : want[d].open}
  /\ dockedWidths' = [d \in Drawer |->
       IF PushesPage(d, shown[d]) THEN ResolvedWidth(shown[d]) + Inset ELSE 0]
  /\ LET leaving == Cardinality({d \in Redocked : Docks(ran[d])})
         joining == Cardinality({d \in Redocked : Docks(shown[d])})
     IN  /\ OnDockedOpenChange(leaving, joining,
                               \E d \in Redocked : shown[d].open /\ shown[d].mobile)
         /\ dockedOver' = DockingHistory(leaving, joining)
  /\ UNCHANGED <<shown, present, drag, cursor>>

\* A bug: the cursor is given back on pointerup only.
ExitHolding(d) ==
  LET gone == {e \in Drawer : Parent[e] = d}
  IN  /\ d \in present /\ ~shown[d].open
      /\ present' = present \ (gone \cup {d})
      /\ want' = [e \in Drawer |-> IF e \in gone THEN Asks(FALSE, want[e].width) ELSE want[e]]
      /\ shown' = [e \in Drawer |-> IF e \in gone THEN Paints(want'[e], FALSE) ELSE shown[e]]
      /\ ran' = shown'
      /\ openDockedDrawers' = openDockedDrawers \ gone
      /\ dockedWidths' = [e \in Drawer |-> IF e \in gone THEN 0 ELSE dockedWidths[e]]
      /\ OnDockedOpenChange(Cardinality({e \in gone : Docks(ran[e])}), 0, FALSE)
      /\ drag' = IF drag \in gone \cup {d} THEN NoDrawer ELSE drag
      /\ spared' = spared \ gone
      /\ UNCHANGED <<cursor, dockedOver>>

\* The animation of a closed panel ends: its popup, and the drawers in it, unmount.
Exit(d) ==
  LET gone == {e \in Drawer : Parent[e] = d}
      held == drag \in gone \cup {d}
  IN  /\ d \in present /\ ~shown[d].open
      /\ present' = present \ (gone \cup {d})
      /\ want' = [e \in Drawer |-> IF e \in gone THEN Asks(FALSE, want[e].width) ELSE want[e]]
      /\ shown' = [e \in Drawer |-> IF e \in gone THEN Paints(want'[e], FALSE) ELSE shown[e]]
      /\ ran' = shown'
      /\ openDockedDrawers' = openDockedDrawers \ gone
      /\ dockedWidths' = [e \in Drawer |-> IF e \in gone THEN 0 ELSE dockedWidths[e]]
      /\ OnDockedOpenChange(Cardinality({e \in gone : Docks(ran[e])}), 0, FALSE)
      /\ IF held THEN drag' = NoDrawer /\ cursor' = "page" ELSE UNCHANGED <<drag, cursor>>
      /\ spared' = spared \ gone
      /\ UNCHANGED dockedOver

\* The components with an update that is not rendered yet.
Unrendered == Cardinality(QueuedDrawers) + (IF NavQueued THEN 1 ELSE 0)

(***************************************************************************)
(* Events come once the effects of the last commit have run.  The bound    *)
(* MaxQueued is on how much may be waiting for a render when they do.      *)
(***************************************************************************)
Event ==
  /\ EffectsRan /\ MediaHeard /\ Unrendered <= MaxQueued
  /\ \/ Resize \/ Toggle \/ Dismiss \/ Reload \/ EndDrag
     \/ \E d \in Drawer : Open(d) \/ Close(d) \/ StartDrag(d) \/ Exit(d)
     \/ \E d \in Drawer : \E width \in Width[d] : SetWidth(d, width)
     \/ \E width \in UNION {DragTo[d] : d \in Drawer} : MoveDrag(width)

Next == Event \/ Commit \/ Effects

Spec == Init /\ [][Next]_vars

-----------------------------------------------------------------------------
(***************************************************************************)
(* Properties.                                                             *)
(***************************************************************************)
\* Every variable has its type.
TypeOK ==
  /\ SidebarTypeOK
  /\ want \in [Drawer -> Wanted]
  /\ shown \in [Drawer -> Painted]
  /\ ran \in [Drawer -> Painted]
  /\ openDockedDrawers \subseteq Drawer
  /\ dockedWidths \in [Drawer -> Nat]
  /\ present \subseteq Drawer
  /\ drag \in Drawer \cup {NoDrawer}
  /\ cursor \in {"page", "col-resize"}
  /\ dockedOver \in {"open", "closed", "toggled", "unclear"}
  /\ spared \subseteq Drawer

\* The sidebar counts the drawers that are docked: no cleanup is lost or run twice.
CountsTheDocked == docking.count = Cardinality({d \in Drawer : Docks(ran[d])})

(***************************************************************************)
(* The padding published for the page to reflow by is the room the panels  *)
(* beside it take: none below `lg', where they cover it.                   *)
(***************************************************************************)
Total(widths) == FoldFunction(LAMBDA a, b : a + b, 0, widths)
Published == Total(dockedWidths)

PageMakesRoom ==
  Settled =>
    Published = Total([d \in Drawer |->
      IF Parent[d] = TopLevel /\ want[d].open /\ ~Mobile(innerWidth)
      THEN ResolvedWidth(want[d]) + Inset ELSE 0])

(***************************************************************************)
(* One docked drawer is open at a time under the same parent, unless its   *)
(* owner refuses to close it or opens it again before it has closed.       *)
(***************************************************************************)
OneUnderEachParent ==
  Settled =>
    \A d, e \in {f \in Mounted : shown[f].open} :
      d # e /\ Parent[d] = Parent[e] => {d, e} \cap spared # {}

(***************************************************************************)
(* A docking that begins over an up-to-date sidebar, which the teacher     *)
(* then leaves alone, collapses it and gives it back as it was.            *)
(***************************************************************************)
CleanDocking ==
  dockedOver \in {"open", "closed"} =>
    (nav.open <=> docking.count = 0 /\ dockedOver = "open")

\* A stored preference is the one in force, however stale the closure that wrote it.
ChoicesRemembered ==
  /\ nav.open = cookie.desktop
  /\ nav.tabletExpanded = cookie.tablet

\* A panel that leaves the page while its edge is held gives the cursor back.
\* This is of one pointer: each handle restores what it found on the body, which
\* with two pointers may be what the other one set (drawer.tsx:392-405).
CursorGivenBack ==
  /\ cursor = "col-resize" <=> drag # NoDrawer
  /\ drag # NoDrawer => drag \in present

(***************************************************************************)
(* "The nav gets out of the way for as long as a docked panel is open"     *)
(* (drawer.tsx:279), unless the teacher asks for it.                       *)
(***************************************************************************)
NavGivesWay ==
  Settled /\ ~Mobile(innerWidth) /\ docking.count > 0 /\ dockedOver # "toggled" =>
    Chrome(navShown) = "rail"

=============================================================================
