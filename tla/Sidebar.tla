------------------------------- MODULE Sidebar -------------------------------
(***************************************************************************)
(* The navigation sidebar of the host application: SidebarProvider of      *)
(* components/ui/sidebar.tsx, the media queries of hooks/use-mobile.ts it  *)
(* takes its layout from, and what docked drawers do to it.                *)
(*                                                                         *)
(* React keeps a state twice: `nav' is what the updates queued so far      *)
(* amount to, `navShown' what the last render showed, layout included.     *)
(* Handlers are closures of that last render and read navShown; only       *)
(* functional updates read nav.  `docking' holds the provider's two refs.  *)
(* Nothing controls the provider from outside (RootLayout passes it no     *)
(* `open'), and document.cookie is written in the same step as the state.  *)
(***************************************************************************)
EXTENDS Integers

CONSTANT InnerWidth        \* the widths the browser window may have, in px

ASSUME InnerWidthAssumption == InnerWidth \subseteq Nat

VARIABLES
  innerWidth,   \* window.innerWidth
  cookie,       \* what the two cookies are read as, defaults filled in
  nav,          \* the provider's state, with every queued update applied
  navShown,     \* that state and the layout, as last rendered
  docking       \* dockedCount and dockedCollapsedSidebar

sidebarVars == <<innerWidth, cookie, nav, navShown, docking>>

Phone(width)   == width < 768
Tablet(width)  == 768 <= width /\ width < 1024
Mobile(width)  == width < 1024

Layout(width) ==
  IF Phone(width) THEN "phone" ELSE IF Tablet(width) THEN "tablet" ELSE "desktop"

NavState == [open : BOOLEAN, tabletExpanded : BOOLEAN, openMobile : BOOLEAN]
NavShown == [open : BOOLEAN, tabletExpanded : BOOLEAN, openMobile : BOOLEAN,
             layout : {"phone", "tablet", "desktop"}]

\* What a render of the provider shows: useMediaQuery reads the query in render.
NavRendered(state) ==
  [open |-> state.open, tabletExpanded |-> state.tabletExpanded,
   openMobile |-> state.openMobile, layout |-> Layout(innerWidth)]

\* Only 'true' and 'false' count; any other cookie, or none, is no preference.
ReadSidebarCookie(value, default) ==
  IF value = "true" THEN TRUE ELSE IF value = "false" THEN FALSE ELSE default

\* The cookies a browser may bring, as the provider's defaults make them read.
CookieText == {"true", "false", "unreadable", "absent"}
StoredCookies ==
  {[desktop |-> ReadSidebarCookie(text.desktop, TRUE),
    tablet  |-> ReadSidebarCookie(text.tablet, FALSE)] :
     text \in [desktop : CookieText, tablet : CookieText]}

StoredNav(stored) ==
  [open |-> stored.desktop, tabletExpanded |-> stored.tablet, openMobile |-> FALSE]

\* effectiveOpen, and so `state', of a render.
Expanded(shown) == IF shown.layout = "tablet" THEN shown.tabletExpanded ELSE shown.open

(***************************************************************************)
(* What the page shows of the sidebar: an off-canvas sheet on a phone, and *)
(* an icon rail or the full navigation beside the page elsewhere.          *)
(***************************************************************************)
Chrome(shown) ==
  IF shown.layout = "phone" THEN (IF shown.openMobile THEN "sheet" ELSE "none")
  ELSE IF Expanded(shown) THEN "full" ELSE "rail"

\* setOpen and setTabletExpanded write the cookie along with the state.
SetOpen(value) ==
  /\ nav' = [nav EXCEPT !.open = value]
  /\ cookie' = [cookie EXCEPT !.desktop = value]

\* A bug: the tablet's choice is not written down.
SetTabletExpandedUnstored(value) ==
  /\ nav' = [nav EXCEPT !.tabletExpanded = value]
  /\ UNCHANGED cookie

SetTabletExpanded(value) ==
  /\ nav' = [nav EXCEPT !.tabletExpanded = value]
  /\ cookie' = [cookie EXCEPT !.tablet = value]

\* Loading the page, at any width and with any cookies.
SidebarInit ==
  /\ innerWidth \in InnerWidth
  /\ cookie \in StoredCookies
  /\ nav = StoredNav(cookie)
  /\ navShown = NavRendered(nav)
  /\ docking = [count |-> 0, collapsed |-> FALSE]

\* Reloading it: the state is read back from the cookies.
SidebarReload ==
  /\ nav' = StoredNav(cookie)
  /\ navShown' = NavRendered(nav')
  /\ docking' = [count |-> 0, collapsed |-> FALSE]
  /\ UNCHANGED <<innerWidth, cookie>>

(***************************************************************************)
(* toggleSidebar, reached by Ctrl/Cmd-B, the trigger and the rail: the     *)
(* layout and the value to negate are those of the last render, but the    *)
(* sheet's is a functional update.                                         *)
(***************************************************************************)
ToggleSidebar ==
  /\ \/ /\ navShown.layout = "phone"
        /\ nav' = [nav EXCEPT !.openMobile = ~nav.openMobile]
        /\ UNCHANGED cookie
     \/ /\ navShown.layout = "tablet"
        /\ SetTabletExpanded(~navShown.tabletExpanded)
     \/ /\ navShown.layout = "desktop"
        /\ SetOpen(~navShown.open)
  /\ UNCHANGED <<innerWidth, navShown, docking>>

\* The sheet is dismissed, or a link in it is followed.
CloseSheet ==
  /\ Chrome(navShown) = "sheet"
  /\ nav' = [nav EXCEPT !.openMobile = FALSE]
  /\ UNCHANGED <<innerWidth, cookie, navShown, docking>>

\* The window is resized, or the device turned.
ResizeWindow(width) ==
  /\ width # innerWidth
  /\ innerWidth' = width
  /\ UNCHANGED <<cookie, nav, navShown, docking>>

RenderNav == navShown' = NavRendered(nav)

(***************************************************************************)
(* onDockedOpenChange, for a whole flush of effects: React runs every      *)
(* cleanup before any new effect, so the drawers that leave do so before   *)
(* the ones that join.  `state' is dockedSidebarState, a ref written by    *)
(* the layout effect of the last render, so that a setOpen queued by a     *)
(* cleanup is not seen by the effects that follow it.                      *)
(***************************************************************************)
\* A bug: a sidebar the drawers did not collapse is expanded all the same.
DockedLeaveUnflagged(leaving) ==
  LET count == docking.count - leaving
  IN  [count |-> count, collapsed |-> docking.collapsed /\ (leaving = 0 \/ count # 0),
       restore |-> leaving > 0 /\ count = 0]

\* A bug: a drawer that leaves is counted off twice.
DockedLeaveTwice(leaving) ==
  LET count == docking.count - 2 * leaving
  IN  [count |-> count, collapsed |-> docking.collapsed /\ (leaving = 0 \/ count # 0),
       restore |-> docking.collapsed /\ leaving > 0 /\ count = 0]

DockedLeave(leaving) ==
  LET count == docking.count - leaving
  IN  [count |-> count,
       collapsed |-> docking.collapsed /\ (leaving = 0 \/ count # 0),
       restore |-> docking.collapsed /\ leaving > 0 /\ count = 0]

DockedJoin(left, joining) ==
  LET collapse == joining > 0 /\ Expanded(navShown) /\ ~left.collapsed
  IN  [count |-> left.count + joining,
       collapsed |-> left.collapsed \/ collapse,
       collapse |-> collapse]

(***************************************************************************)
(* `overlays': some drawer opened, or changed its layout while open, below *)
(* `lg', where the handler only closes the sheet.                          *)
(***************************************************************************)
OnDockedOpenChange(leaving, joining, overlays) ==
  LET left   == DockedLeave(leaving)
      joined == DockedJoin(left, joining)
      open   == IF joined.collapse THEN FALSE
                ELSE IF left.restore THEN TRUE ELSE nav.open
  IN  /\ docking' = [count |-> joined.count, collapsed |-> joined.collapsed]
      /\ nav' = [nav EXCEPT !.open = open,
                            !.openMobile = nav.openMobile /\ ~overlays]
      /\ cookie' = IF left.restore \/ joined.collapse
                   THEN [cookie EXCEPT !.desktop = open] ELSE cookie
      /\ UNCHANGED <<innerWidth, navShown>>

\* The sidebar's last render shows its state, in the layout of the window.
NavUpToDate == navShown = NavRendered(nav)

SidebarTypeOK ==
  /\ innerWidth \in InnerWidth
  /\ cookie \in [desktop : BOOLEAN, tablet : BOOLEAN]
  /\ nav \in NavState
  /\ navShown \in NavShown
  /\ docking \in [count : Nat, collapsed : BOOLEAN]

=============================================================================
