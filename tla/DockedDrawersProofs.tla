------------------------- MODULE DockedDrawersProofs -------------------------
(***************************************************************************)
(* What holds of the docked drawers and the sidebar for every number of    *)
(* drawers, every window and width, and however many updates wait for a    *)
(* render.                                                                 *)
(***************************************************************************)
EXTENDS DockedDrawers, FiniteSetTheorems, TLAPS

\* A drag asks for a width between the two limits, at least 320 px in any window.
LEMMA ClampBounds ==
  ASSUME innerWidth \in Nat, NEW width \in Int
  PROVE  ClampDockedWidth(width) \in MinWidth..MaxWidth
BY DEF ClampDockedWidth, Least, Greatest, MinWidth, MaxWidth, MinPageWidth

-----------------------------------------------------------------------------
(***************************************************************************)
(* Types and the count.                                                    *)
(***************************************************************************)
DrawerTypeOK ==
  /\ want \in [Drawer -> Wanted]
  /\ shown \in [Drawer -> Painted]
  /\ ran \in [Drawer -> Painted]
  /\ openDockedDrawers \subseteq Drawer
  /\ dockedWidths \in [Drawer -> Nat]
  /\ present \subseteq Drawer
  /\ drag \in Drawer \cup {NoDrawer}
  /\ cursor \in {"page", "col-resize"}

HistoryTypeOK ==
  /\ dockedOver \in {"open", "closed", "toggled", "unclear"}
  /\ spared \subseteq Drawer

LEMMA TypeOKParts == TypeOK <=> SidebarTypeOK /\ DrawerTypeOK /\ HistoryTypeOK
BY DEF TypeOK, DrawerTypeOK, HistoryTypeOK

DockedNow == {d \in Drawer : Docks(ran[d])}

LEMMA CountOfDocked == CountsTheDocked <=> docking.count = Cardinality(DockedNow)
BY DEF CountsTheDocked, DockedNow

LEMMA StoredCookieType ==
  ASSUME NEW stored \in StoredCookies
  PROVE  stored \in [desktop : BOOLEAN, tablet : BOOLEAN]
<1>1. \A value : \A default \in BOOLEAN : ReadSidebarCookie(value, default) \in BOOLEAN
  BY DEF ReadSidebarCookie
<1>2. PICK text \in [desktop : CookieText, tablet : CookieText] :
         stored = [desktop |-> ReadSidebarCookie(text.desktop, TRUE),
                   tablet  |-> ReadSidebarCookie(text.tablet, FALSE)]
  BY DEF StoredCookies
<1> QED
  BY <1>1, <1>2

LEMMA NavRenderedType ==
  ASSUME innerWidth \in Nat, NEW state \in NavState
  PROVE  NavRendered(state) \in NavShown
BY DEF NavRendered, NavState, NavShown, Layout, Phone, Tablet

LEMMA StoredNavType ==
  ASSUME NEW stored \in [desktop : BOOLEAN, tablet : BOOLEAN]
  PROVE  StoredNav(stored) \in NavState
BY DEF StoredNav, NavState

LEMMA SidebarInitType == SidebarInit => SidebarTypeOK
<1> SUFFICES ASSUME SidebarInit PROVE SidebarTypeOK
  OBVIOUS
<1>1. innerWidth \in Nat
  BY InnerWidthAssumption DEF SidebarInit
<1>2. cookie \in [desktop : BOOLEAN, tablet : BOOLEAN]
  BY StoredCookieType DEF SidebarInit
<1>3. nav \in NavState
  BY <1>2, StoredNavType DEF SidebarInit
<1>4. navShown \in NavShown
  BY <1>1, <1>3, NavRenderedType DEF SidebarInit
<1>5. innerWidth \in InnerWidth /\ docking \in [count : Nat, collapsed : BOOLEAN]
  BY DEF SidebarInit
<1> QED
  BY <1>2, <1>3, <1>4, <1>5 DEF SidebarTypeOK

LEMMA SidebarReloadType == SidebarTypeOK /\ SidebarReload => SidebarTypeOK'
<1> SUFFICES ASSUME SidebarTypeOK, SidebarReload PROVE SidebarTypeOK'
  OBVIOUS
<1>1. nav' \in NavState
  BY StoredNavType DEF SidebarTypeOK, SidebarReload
<1>2. navShown' \in NavShown
  BY <1>1, InnerWidthAssumption, NavRenderedType DEF SidebarTypeOK, SidebarReload
<1> QED
  BY <1>1, <1>2 DEF SidebarTypeOK, SidebarReload

LEMMA ToggleSidebarType == SidebarTypeOK /\ ToggleSidebar => SidebarTypeOK'
BY DEF SidebarTypeOK, ToggleSidebar, SetTabletExpanded, SetOpen, NavState, NavShown

LEMMA CloseSheetType == SidebarTypeOK /\ CloseSheet => SidebarTypeOK'
BY DEF SidebarTypeOK, CloseSheet, NavState

\* A flush of effects keeps the types if the count does not go below zero.
LEMMA OnDockedOpenChangeType ==
  ASSUME SidebarTypeOK, NEW leaving \in Nat, NEW joining \in Nat, NEW overlays \in BOOLEAN,
         docking.count - leaving \in Nat,
         OnDockedOpenChange(leaving, joining, overlays)
  PROVE  SidebarTypeOK' /\ docking'.count = docking.count - leaving + joining
<1> DEFINE left == DockedLeave(leaving)
           joined == DockedJoin(left, joining)
<1>1. left.count = docking.count - leaving /\ left.collapsed \in BOOLEAN /\ left.restore \in BOOLEAN
  BY DEF DockedLeave, SidebarTypeOK
<1>2. joined.count = left.count + joining /\ joined.collapsed \in BOOLEAN /\ joined.collapse \in BOOLEAN
  BY <1>1 DEF DockedJoin, SidebarTypeOK
<1>3. docking' = [count |-> joined.count, collapsed |-> joined.collapsed]
  BY DEF OnDockedOpenChange
<1>4. docking' \in [count : Nat, collapsed : BOOLEAN]
  BY <1>1, <1>2, <1>3
<1>5. nav' \in NavState /\ cookie' \in [desktop : BOOLEAN, tablet : BOOLEAN]
  BY <1>1, <1>2 DEF OnDockedOpenChange, SidebarTypeOK, NavState
<1>6. innerWidth' \in InnerWidth /\ navShown' \in NavShown
  BY DEF OnDockedOpenChange, SidebarTypeOK
<1> QED
  BY <1>1, <1>2, <1>3, <1>4, <1>5, <1>6 DEF SidebarTypeOK

-----------------------------------------------------------------------------
\* A page that mounts drawers of any width, open or not.
LEMMA FirstWidthsType ==
  ASSUME NEW widths \in FirstWidths
  PROVE  \A d \in Drawer : widths[d] \in Nat
BY DrawerAssumption DEF FirstWidths

LEMMA FirstPageTypes ==
  ASSUME NEW widths \in FirstWidths, NEW openings \in FirstOpen
  PROVE  /\ FirstWanted(openings, widths) \in [Drawer -> Wanted]
         /\ FirstShown(FirstWanted(openings, widths)) \in [Drawer -> Painted]
         /\ FirstRan(widths) \in [Drawer -> Painted]
         /\ openings \subseteq Drawer
<1>1. Mobile(innerWidth) \in BOOLEAN
  BY DEF Mobile
<1>2. \A d \in Drawer : Asks(d \in openings, widths[d]) \in Wanted /\ Asks(FALSE, widths[d]) \in Wanted
  BY FirstWidthsType DEF Asks, Wanted
<1>3. \A w \in Wanted : Paints(w, Mobile(innerWidth)) \in Painted
  BY <1>1 DEF Paints, Wanted, Painted
<1>4. FirstWanted(openings, widths) \in [Drawer -> Wanted]
  BY <1>2 DEF FirstWanted
<1>5. FirstShown(FirstWanted(openings, widths)) \in [Drawer -> Painted]
  BY <1>3, <1>4 DEF FirstShown
<1>6. FirstRan(widths) \in [Drawer -> Painted]
  BY <1>2, <1>3 DEF FirstRan
<1>7. openings \subseteq Drawer
  BY DrawerAssumption
<1> QED
  BY <1>4, <1>5, <1>6, <1>7

\* Nothing of such a page is docked until its effects run.
LEMMA FirstPageUndocked ==
  ASSUME NEW widths \in FirstWidths
  PROVE  {d \in Drawer : Docks(FirstRan(widths)[d])} = {}
BY DEF FirstRan, Docks, Paints, Asks

LEMMA InitCounted == Init => TypeOK /\ CountsTheDocked
<1> SUFFICES ASSUME Init PROVE TypeOK /\ CountsTheDocked
  OBVIOUS
<1>1. PICK openings \in FirstOpen, widths \in FirstWidths :
         /\ want = FirstWanted(openings, widths)
         /\ shown = FirstShown(FirstWanted(openings, widths))
         /\ ran = FirstRan(widths)
         /\ present = openings
  BY DEF Init
<1>2. SidebarTypeOK
  BY SidebarInitType DEF Init
<1>3. DrawerTypeOK
  BY <1>1, FirstPageTypes DEF Init, DrawerTypeOK
<1>4. HistoryTypeOK
  BY DEF Init, HistoryTypeOK
<1>5. DockedNow = {} /\ docking.count = 0
  BY <1>1, FirstPageUndocked DEF DockedNow, Init, SidebarInit
<1>6. docking.count = Cardinality(DockedNow)
  BY <1>5, FS_EmptySet
<1> QED
  BY <1>2, <1>3, <1>4, <1>6, TypeOKParts, CountOfDocked

LEMMA ReloadCounted == TypeOK /\ Reload => (TypeOK /\ CountsTheDocked)'
<1> SUFFICES ASSUME TypeOK, Reload PROVE (TypeOK /\ CountsTheDocked)'
  OBVIOUS
<1>0. innerWidth' = innerWidth
  BY DEF Reload, SidebarReload
<1>1. PICK openings \in FirstOpen, widths \in FirstWidths :
         /\ want' = FirstWanted(openings, widths)
         /\ shown' = FirstShown(FirstWanted(openings, widths))
         /\ ran' = FirstRan(widths)
         /\ present' = openings
  BY DEF Reload
<1>2. SidebarTypeOK'
  BY TypeOKParts, SidebarReloadType DEF Reload
<1>3. DrawerTypeOK'
  BY <1>1, FirstPageTypes DEF Reload, DrawerTypeOK
<1>4. HistoryTypeOK'
  BY DEF Reload, HistoryTypeOK
<1>5. DockedNow' = {} /\ docking'.count = 0
  BY <1>1, FirstPageUndocked DEF DockedNow, Reload, SidebarReload
<1>6. docking'.count = Cardinality(DockedNow')
  BY <1>5, FS_EmptySet
<1>7. (docking.count = Cardinality(DockedNow))'
  BY <1>6
<1> QED
  BY <1>2, <1>3, <1>4, <1>7, TypeOKParts, CountOfDocked, PTL

\* The count stays right where neither it nor what the effects ran with changes.
LEMMA CountKept ==
  ASSUME CountsTheDocked, UNCHANGED <<ran, docking>>,
         SidebarTypeOK', DrawerTypeOK', HistoryTypeOK'
  PROVE  (TypeOK /\ CountsTheDocked)'
<1>1. TypeOK'
  BY DEF TypeOK, DrawerTypeOK, HistoryTypeOK
<1>2. CountsTheDocked'
  BY DEF CountsTheDocked, Docks
<1> QED
  BY <1>1, <1>2

\* The events that leave the effects alone.
LEMMA EventCounted ==
  ASSUME TypeOK, CountsTheDocked,
         \/ Resize \/ Toggle \/ Dismiss \/ EndDrag
         \/ \E d \in Drawer : Open(d) \/ Close(d) \/ StartDrag(d)
         \/ \E d \in Drawer : \E width \in Width[d] : SetWidth(d, width)
         \/ \E width \in UNION {DragTo[d] : d \in Drawer} : MoveDrag(width)
  PROVE  (TypeOK /\ CountsTheDocked)'
<1>0. SidebarTypeOK /\ DrawerTypeOK /\ HistoryTypeOK
  BY TypeOKParts
<1>1. CASE Resize
  <2>1. SidebarTypeOK'
    BY <1>0, <1>1 DEF Resize, ResizeWindow, SidebarTypeOK
  <2>2. DrawerTypeOK' /\ HistoryTypeOK' /\ UNCHANGED <<ran, docking>>
    BY <1>0, <1>1 DEF Resize, ResizeWindow, drawerVars, history, DrawerTypeOK, HistoryTypeOK
  <2> QED
    BY <2>1, <2>2, CountKept
<1>2. CASE Toggle
  <2>1. SidebarTypeOK'
    BY <1>0, <1>2, ToggleSidebarType DEF Toggle
  <2>2. DrawerTypeOK' /\ UNCHANGED <<ran, docking>>
    BY <1>0, <1>2 DEF Toggle, ToggleSidebar, drawerVars, DrawerTypeOK
  <2>3. HistoryTypeOK'
    BY <1>0, <1>2 DEF Toggle, HistoryTypeOK
  <2> QED
    BY <2>1, <2>2, <2>3, CountKept
<1>3. CASE Dismiss
  <2>1. SidebarTypeOK'
    BY <1>0, <1>3, CloseSheetType DEF Dismiss
  <2>2. DrawerTypeOK' /\ HistoryTypeOK' /\ UNCHANGED <<ran, docking>>
    BY <1>0, <1>3 DEF Dismiss, CloseSheet, drawerVars, history, DrawerTypeOK, HistoryTypeOK
  <2> QED
    BY <2>1, <2>2, CountKept
<1>4. CASE EndDrag
  <2>1. SidebarTypeOK' /\ DrawerTypeOK' /\ HistoryTypeOK' /\ UNCHANGED <<ran, docking>>
    BY <1>0, <1>4 DEF EndDrag, sidebarVars, history, SidebarTypeOK, DrawerTypeOK, HistoryTypeOK
  <2> QED
    BY <2>1, CountKept
<1>5. ASSUME NEW d \in Drawer, Open(d) \/ Close(d)
      PROVE  (TypeOK /\ CountsTheDocked)'
  <2>1. \A b \in BOOLEAN : [want EXCEPT ![d].open = b] \in [Drawer -> Wanted]
    BY <1>0 DEF DrawerTypeOK, Wanted
  <2>2. want' \in [Drawer -> Wanted]
    BY <1>5, <2>1 DEF Open, Close
  <2>3. SidebarTypeOK' /\ DrawerTypeOK' /\ HistoryTypeOK' /\ UNCHANGED <<ran, docking>>
    BY <1>0, <1>5, <2>2
    DEF Open, Close, sidebarVars, history, SidebarTypeOK, DrawerTypeOK, HistoryTypeOK
  <2> QED
    BY <2>3, CountKept
<1>6. ASSUME NEW d \in Drawer, StartDrag(d)
      PROVE  (TypeOK /\ CountsTheDocked)'
  <2>1. SidebarTypeOK' /\ DrawerTypeOK' /\ HistoryTypeOK' /\ UNCHANGED <<ran, docking>>
    BY <1>0, <1>6 DEF StartDrag, sidebarVars, history, SidebarTypeOK, DrawerTypeOK, HistoryTypeOK
  <2> QED
    BY <2>1, CountKept
<1>7. ASSUME NEW d \in Drawer, NEW width \in Width[d], SetWidth(d, width)
      PROVE  (TypeOK /\ CountsTheDocked)'
  <2>1. width \in Nat
    BY DrawerAssumption
  <2>2. want' \in [Drawer -> Wanted]
    BY <1>0, <1>7, <2>1 DEF SetWidth, DrawerTypeOK, Wanted
  <2>3. SidebarTypeOK' /\ DrawerTypeOK' /\ HistoryTypeOK' /\ UNCHANGED <<ran, docking>>
    BY <1>0, <1>7, <2>2 DEF SetWidth, sidebarVars, history, SidebarTypeOK, DrawerTypeOK, HistoryTypeOK
  <2> QED
    BY <2>3, CountKept
<1>8. ASSUME NEW width, MoveDrag(width)
      PROVE  (TypeOK /\ CountsTheDocked)'
  <2>1. width \in Int /\ drag \in Drawer
    BY <1>0, <1>8, DrawerAssumption DEF MoveDrag, DrawerTypeOK
  <2>2. innerWidth \in Nat
    BY <1>0, InnerWidthAssumption DEF SidebarTypeOK
  <2>3. ClampDockedWidth(width) \in Nat
    <3>1. ClampDockedWidth(width) \in MinWidth..MaxWidth
      BY <2>1, <2>2, ClampBounds
    <3> QED
      BY <3>1 DEF MinWidth, MaxWidth
  <2>4. want' \in [Drawer -> Wanted]
    BY <1>0, <1>8, <2>1, <2>3 DEF MoveDrag, DrawerTypeOK, Wanted
  <2>5. SidebarTypeOK' /\ DrawerTypeOK' /\ HistoryTypeOK' /\ UNCHANGED <<ran, docking>>
    BY <1>0, <1>8, <2>4 DEF MoveDrag, sidebarVars, history, SidebarTypeOK, DrawerTypeOK, HistoryTypeOK
  <2> QED
    BY <2>5, CountKept
<1> QED
  BY <1>1, <1>2, <1>3, <1>4, <1>5, <1>6, <1>7, <1>8

\* One render and commit: neither the effects nor what they have counted change.
LEMMA CommitCounted == TypeOK /\ CountsTheDocked /\ Commit => (TypeOK /\ CountsTheDocked)'
<1> SUFFICES ASSUME TypeOK, CountsTheDocked, Commit PROVE (TypeOK /\ CountsTheDocked)'
  OBVIOUS
<1>0. SidebarTypeOK /\ DrawerTypeOK /\ HistoryTypeOK
  BY TypeOKParts
<1>a. PICK heard \in SUBSET StaleDrawers, navHeard \in {NavQueued, NavQueued \/ NavStale} :
       LET opening  == {d \in QueuedDrawers : want[d].open} \ present
           mounting == {d \in Drawer : Parent[d] \in opening}
           rendered == QueuedDrawers \cup heard \cup mounting
       IN  /\ IF navHeard THEN RenderNav ELSE UNCHANGED navShown
           /\ want' = [d \in Drawer |-> IF d \in rendered THEN RenderedWant(d) ELSE want[d]]
           /\ shown' = [d \in Drawer |->
                          IF d \in rendered THEN Paints(RenderedWant(d), Mobile(innerWidth))
                                            ELSE shown[d]]
           /\ present' = {d \in present \cup opening : want[d].open \/ Lingers(d)}
           /\ spared' = {d \in spared :
                            want[d].open /\ \E e \in Siblings(d, Drawer) : want[e].open}
  BY DEF Commit
<1> DEFINE opening == {d \in QueuedDrawers : want[d].open} \ present
           rendered == QueuedDrawers \cup heard \cup {d \in Drawer : Parent[d] \in opening}
<1>1. /\ IF navHeard THEN RenderNav ELSE UNCHANGED navShown
      /\ want' = [d \in Drawer |-> IF d \in rendered THEN RenderedWant(d) ELSE want[d]]
      /\ shown' = [d \in Drawer |->
                     IF d \in rendered THEN Paints(RenderedWant(d), Mobile(innerWidth))
                                       ELSE shown[d]]
      /\ present' \subseteq present \cup opening
      /\ spared' \subseteq spared
  BY <1>a
<1>b. opening \subseteq Drawer
  BY DEF QueuedDrawers, Mounted
<1> HIDE DEF opening, rendered
<1>2. \A d \in Drawer : RenderedWant(d) \in Wanted
  BY <1>0 DEF DrawerTypeOK, RenderedWant, Wanted
<1>3. \A d \in Drawer : Paints(RenderedWant(d), Mobile(innerWidth)) \in Painted
  BY <1>2 DEF Paints, Mobile, Wanted, Painted
<1>4. want' \in [Drawer -> Wanted] /\ shown' \in [Drawer -> Painted]
  BY <1>0, <1>1, <1>2, <1>3 DEF DrawerTypeOK
<1>5. present' \subseteq Drawer /\ spared' \subseteq Drawer
  BY <1>0, <1>1, <1>b DEF DrawerTypeOK, HistoryTypeOK
<1>6. navShown' \in NavShown
  BY <1>0, <1>1, InnerWidthAssumption, NavRenderedType DEF RenderNav, SidebarTypeOK
<1>7. UNCHANGED <<innerWidth, cookie, nav, docking, ran, openDockedDrawers, dockedWidths,
                  drag, cursor, dockedOver>>
  BY DEF Commit
<1>8. SidebarTypeOK'
  BY <1>0, <1>6, <1>7 DEF SidebarTypeOK
<1>9. DrawerTypeOK' /\ HistoryTypeOK'
  BY <1>0, <1>4, <1>5, <1>7 DEF DrawerTypeOK, HistoryTypeOK
<1> QED
  BY <1>7, <1>8, <1>9, CountKept

\* A flush of effects takes off the drawers that leave and puts on those that join.
Leaving == {d \in Redocked : Docks(ran[d])}
Joining == {d \in Redocked : Docks(shown[d])}

LEMMA FlushCounts ==
  ASSUME TypeOK, CountsTheDocked
  PROVE  /\ Cardinality(Leaving) \in Nat /\ Cardinality(Joining) \in Nat
         /\ docking.count - Cardinality(Leaving) \in Nat
         /\ docking.count - Cardinality(Leaving) + Cardinality(Joining)
              = Cardinality({d \in Drawer : Docks(shown[d])})
<1> DEFINE A == {d \in Drawer : Docks(ran[d])}
           B == {d \in Drawer : Docks(shown[d])}
<1>1. A \ Leaving = B \ Joining
  BY DEF Leaving, Joining, Redocked, Docks
<1>2. Leaving \subseteq A /\ Joining \subseteq B
  BY DEF Leaving, Joining, Redocked
<1>3. IsFiniteSet(A) /\ IsFiniteSet(B)
  BY DrawerAssumption, FS_Subset
<1>4. docking.count = Cardinality(A)
  BY DEF CountsTheDocked
<1> HIDE DEF A, B
<1>5. IsFiniteSet(Leaving) /\ IsFiniteSet(Joining)
  BY <1>2, <1>3, FS_Subset
<1>6. Cardinality(A) - Cardinality(Leaving) = Cardinality(A \ Leaving)
  <2>1. A \cap Leaving = Leaving
    BY <1>2
  <2>2. Cardinality(A \ Leaving) = Cardinality(A) - Cardinality(A \cap Leaving)
    BY <1>3, FS_Difference
  <2> QED
    BY <2>1, <2>2
<1>7. Cardinality(B) - Cardinality(Joining) = Cardinality(B \ Joining)
  <2>1. B \cap Joining = Joining
    BY <1>2
  <2>2. Cardinality(B \ Joining) = Cardinality(B) - Cardinality(B \cap Joining)
    BY <1>3, FS_Difference
  <2> QED
    BY <2>1, <2>2
<1>8. /\ Cardinality(A) \in Nat /\ Cardinality(B) \in Nat /\ Cardinality(A \ Leaving) \in Nat
      /\ Cardinality(Leaving) \in Nat /\ Cardinality(Joining) \in Nat
  <2>1. IsFiniteSet(A \ Leaving)
    BY <1>3, FS_Subset
  <2> QED
    BY <1>3, <1>5, <2>1, FS_CardinalityType
<1>9. Cardinality(A \ Leaving) = Cardinality(B \ Joining)
  BY <1>1
<1>10. B = {d \in Drawer : Docks(shown[d])}
  BY DEF B
<1> QED
  BY <1>4, <1>6, <1>7, <1>8, <1>9, <1>10

LEMMA EffectsCounted == TypeOK /\ CountsTheDocked /\ Effects => (TypeOK /\ CountsTheDocked)'
<1> SUFFICES ASSUME TypeOK, CountsTheDocked, Effects PROVE (TypeOK /\ CountsTheDocked)'
  OBVIOUS
<1>0. SidebarTypeOK /\ DrawerTypeOK /\ HistoryTypeOK
  BY TypeOKParts
<1> DEFINE overlays == \E d \in Redocked : shown[d].open /\ shown[d].mobile
<1>1. /\ ran' = shown
      /\ openDockedDrawers' = Registered
      /\ dockedWidths' = [d \in Drawer |->
           IF PushesPage(d, shown[d]) THEN ResolvedWidth(shown[d]) + Inset ELSE 0]
      /\ OnDockedOpenChange(Cardinality(Leaving), Cardinality(Joining), overlays)
      /\ dockedOver' = DockingHistory(Cardinality(Leaving), Cardinality(Joining))
      /\ UNCHANGED <<shown, present, drag, cursor>>
  BY DEF Effects, Leaving, Joining
<1>2. PICK last \in LastOpened :
        /\ want' = [d \in Drawer |-> IF d \in AskedToClose(last) \ Stubborn
                                     THEN [want[d] EXCEPT !.open = FALSE] ELSE want[d]]
        /\ spared' = spared \cup {d \in AskedToClose(last) \cap Stubborn : want[d].open}
  BY DEF Effects
<1>3. want' \in [Drawer -> Wanted]
  BY <1>0, <1>2 DEF DrawerTypeOK, Wanted
<1>4. spared' \subseteq Drawer
  BY <1>0, <1>2, DrawerAssumption DEF HistoryTypeOK
<1>5. Registered \subseteq Drawer
  BY <1>0 DEF Registered, Opened, DrawerTypeOK
<1>6. \A d \in Drawer : ResolvedWidth(shown[d]) + Inset \in Nat
  BY <1>0 DEF ResolvedWidth, Inset, DrawerTypeOK, Painted
<1>7. dockedWidths' \in [Drawer -> Nat]
  BY <1>1, <1>6
<1>8. DrawerTypeOK'
  BY <1>0, <1>1, <1>3, <1>5, <1>7 DEF DrawerTypeOK
<1>9. HistoryTypeOK'
  BY <1>0, <1>1, <1>4 DEF HistoryTypeOK, DockingHistory
<1>10. overlays \in BOOLEAN
  OBVIOUS
<1> HIDE DEF overlays
<1>11. SidebarTypeOK' /\ docking'.count
          = docking.count - Cardinality(Leaving) + Cardinality(Joining)
  BY <1>0, <1>1, <1>10, FlushCounts, OnDockedOpenChangeType
<1>12. docking'.count = Cardinality({d \in Drawer : Docks(shown[d])})
  BY <1>11, FlushCounts
<1>13. CountsTheDocked'
  BY <1>1, <1>12 DEF CountsTheDocked, Docks
<1> QED
  BY <1>8, <1>9, <1>11, <1>13 DEF TypeOK, DrawerTypeOK, HistoryTypeOK

\* The drawers inside a panel that unmounts are counted off with it.
LEMMA ExitCounted ==
  ASSUME TypeOK, CountsTheDocked, EffectsRan, NEW d \in Drawer, Exit(d)
  PROVE  (TypeOK /\ CountsTheDocked)'
<1>0. SidebarTypeOK /\ DrawerTypeOK /\ HistoryTypeOK
  BY TypeOKParts
<1> DEFINE gone == {e \in Drawer : Parent[e] = d}
           A == {e \in Drawer : Docks(ran[e])}
           out == {e \in gone : Docks(ran[e])}
<1>1. /\ present' = present \ (gone \cup {d})
      /\ want' = [e \in Drawer |-> IF e \in gone THEN Asks(FALSE, want[e].width) ELSE want[e]]
      /\ shown' = [e \in Drawer |-> IF e \in gone THEN Paints(want'[e], FALSE) ELSE shown[e]]
      /\ ran' = shown'
      /\ openDockedDrawers' = openDockedDrawers \ gone
      /\ dockedWidths' = [e \in Drawer |-> IF e \in gone THEN 0 ELSE dockedWidths[e]]
      /\ OnDockedOpenChange(Cardinality(out), 0, FALSE)
      /\ (drag' = NoDrawer /\ cursor' = "page") \/ UNCHANGED <<drag, cursor>>
      /\ spared' = spared \ gone
      /\ UNCHANGED dockedOver
  BY DEF Exit
<1>2. want' \in [Drawer -> Wanted]
  BY <1>0, <1>1 DEF DrawerTypeOK, Wanted, Asks
<1>3. shown' \in [Drawer -> Painted]
  <2>1. \A e \in Drawer : Paints(want'[e], FALSE) \in Painted
    BY <1>2 DEF Paints, Wanted, Painted
  <2> QED
    BY <1>0, <1>1, <2>1 DEF DrawerTypeOK
<1>4. DrawerTypeOK'
  BY <1>0, <1>1, <1>2, <1>3 DEF DrawerTypeOK
<1>5. HistoryTypeOK'
  BY <1>0, <1>1 DEF HistoryTypeOK
<1>6. {e \in Drawer : Docks(ran'[e])} = A \ out
  <2>1. \A e \in gone : ~Docks(ran'[e])
    BY <1>1, <1>2 DEF Docks, Paints, Asks
  <2>2. \A e \in Drawer \ gone : ran'[e] = ran[e]
    BY <1>1 DEF EffectsRan
  <2> QED
    BY <2>1, <2>2
<1>7. out \subseteq A /\ A \subseteq Drawer /\ A \cap out = out
  OBVIOUS
<1>8. docking.count = Cardinality(A)
  BY DEF CountsTheDocked
<1> HIDE DEF A, out
<1>9. IsFiniteSet(A) /\ IsFiniteSet(out) /\ IsFiniteSet(A \ out)
  <2>1. IsFiniteSet(A)
    BY <1>7, FS_Subset, DrawerAssumption
  <2> QED
    BY <1>7, <2>1, FS_Subset
<1>10. Cardinality(A) \in Nat /\ Cardinality(out) \in Nat /\ Cardinality(A \ out) \in Nat
  BY <1>9, FS_CardinalityType
<1>11. Cardinality(A \ out) = Cardinality(A) - Cardinality(out)
  <2>1. Cardinality(A \ out) = Cardinality(A) - Cardinality(A \cap out)
    BY <1>9, FS_Difference
  <2> QED
    BY <1>7, <2>1
<1>12. docking.count - Cardinality(out) \in Nat
  BY <1>8, <1>10, <1>11
<1>13. SidebarTypeOK' /\ docking'.count = docking.count - Cardinality(out) + 0
  <2>1. 0 \in Nat /\ FALSE \in BOOLEAN
    OBVIOUS
  <2> QED
    BY <1>0, <1>1, <1>10, <1>12, <2>1, OnDockedOpenChangeType
<1>14. docking'.count = Cardinality({e \in Drawer : Docks(ran'[e])})
  <2>1. docking'.count = Cardinality(A \ out)
    BY <1>8, <1>10, <1>11, <1>13
  <2> QED
    BY <1>6, <2>1
<1>15. CountsTheDocked'
  BY <1>14 DEF CountsTheDocked, Docks
<1> QED
  BY <1>4, <1>5, <1>13, <1>15 DEF TypeOK, DrawerTypeOK, HistoryTypeOK

LEMMA NextCounted == TypeOK /\ CountsTheDocked /\ [Next]_vars => (TypeOK /\ CountsTheDocked)'
<1> SUFFICES ASSUME TypeOK, CountsTheDocked, [Next]_vars PROVE (TypeOK /\ CountsTheDocked)'
  OBVIOUS
<1>1. CASE Event
  <2>1. CASE Reload
    BY <2>1, ReloadCounted
  <2>2. ASSUME NEW d \in Drawer, Exit(d) PROVE (TypeOK /\ CountsTheDocked)'
    BY <1>1, <2>2, ExitCounted DEF Event
  <2>3. CASE \/ Resize \/ Toggle \/ Dismiss \/ EndDrag
             \/ \E d \in Drawer : Open(d) \/ Close(d) \/ StartDrag(d)
             \/ \E d \in Drawer : \E width \in Width[d] : SetWidth(d, width)
             \/ \E width \in UNION {DragTo[d] : d \in Drawer} : MoveDrag(width)
    BY <2>3, EventCounted
  <2> QED
    BY <1>1, <2>1, <2>2, <2>3 DEF Event
<1>2. CASE Commit
  BY <1>2, CommitCounted
<1>3. CASE Effects
  BY <1>3, EffectsCounted
<1>4. CASE UNCHANGED vars
  <2>1. UNCHANGED sidebarVars /\ UNCHANGED drawerVars /\ UNCHANGED history
    BY <1>4 DEF vars
  <2>2. SidebarTypeOK' /\ DrawerTypeOK' /\ HistoryTypeOK' /\ UNCHANGED <<ran, docking>>
    BY <2>1, TypeOKParts
    DEF sidebarVars, drawerVars, history, SidebarTypeOK, DrawerTypeOK, HistoryTypeOK
  <2> QED
    BY <2>2, CountKept
<1> QED
  BY <1>1, <1>2, <1>3, <1>4 DEF Next

\* Every variable keeps its type, the count of docked drawers included.
THEOREM DockedTypes == Spec => []TypeOK
BY InitCounted, NextCounted, PTL DEF Spec

(***************************************************************************)
(* The sidebar counts the drawers that are docked: no cleanup of a drawer  *)
(* that closes, unmounts or goes below `lg' is lost or run twice.          *)
(***************************************************************************)
THEOREM SidebarCountsTheDocked == Spec => []CountsTheDocked
BY InitCounted, NextCounted, PTL DEF Spec

-----------------------------------------------------------------------------
(***************************************************************************)
(* What a docking owes the sidebar.  The teacher's own choice can be told  *)
(* from the drawers' only through dockedCollapsedSidebar, and the drawers  *)
(* see the sidebar as last rendered: so a docking over an expanded one     *)
(* holds the flag for as long as it lasts, and one over a collapsed one    *)
(* never finds it expanded, at whatever width a drawer joins.              *)
(***************************************************************************)
DockingInv ==
  /\ CleanDocking
  /\ docking.count = 0 => ~docking.collapsed
  /\ dockedOver = "open" /\ docking.count > 0 => docking.collapsed
  /\ dockedOver = "closed" /\ docking.count > 0 => ~docking.collapsed /\ ~navShown.open
  /\ dockedOver \in {"open", "closed"} /\ docking.count > 0 /\ ~Mobile(innerWidth)
       => navShown.layout = "desktop"

\* A drawer was painted for the window its effects are to run in, and while it existed.
PaintedInv ==
  /\ \A d \in Drawer : shown[d] # ran[d] => shown[d].mobile = Mobile(innerWidth)
  /\ \A d \in Drawer : shown[d].open => d \in Mounted

LEMMA DesktopLayout ==
  ASSUME innerWidth \in Nat
  PROVE  ~Mobile(innerWidth) <=> Layout(innerWidth) = "desktop"
BY DEF Mobile, Layout, Phone, Tablet

\* A drawer that joins does so at a width where drawers dock.
LEMMA JoiningDocks ==
  ASSUME TypeOK, PaintedInv, Cardinality(Joining) > 0
  PROVE  ~Mobile(innerWidth)
<1>1. Joining # {}
  <2>1. Cardinality({}) = 0
    BY FS_EmptySet
  <2> QED
    BY <2>1
<1>2. PICK d \in Drawer : d \in Redocked /\ Docks(shown[d])
  BY <1>1 DEF Joining, Redocked
<1>3. shown[d] # ran[d]
  BY <1>2 DEF Redocked
<1> QED
  BY <1>2, <1>3 DEF PaintedInv, Docks

(***************************************************************************)
(* A flush of effects keeps a docking clean, whether it begins one,        *)
(* continues it or ends it.                                                *)
(***************************************************************************)
LEMMA FlushClean ==
  ASSUME TypeOK, DockingInv, NEW leaving \in Nat, NEW joining \in Nat, NEW overlays \in BOOLEAN,
         docking.count - leaving \in Nat,
         joining > 0 => ~Mobile(innerWidth),
         OnDockedOpenChange(leaving, joining, overlays),
         \/ dockedOver' = DockingHistory(leaving, joining)
         \/ joining = 0 /\ dockedOver' = dockedOver
  PROVE  DockingInv'
<1> DEFINE left == DockedLeave(leaving)
           joined == DockedJoin(left, joining)
<1>1. /\ left.count = docking.count - leaving
      /\ (left.collapsed <=> docking.collapsed /\ (leaving = 0 \/ left.count # 0))
      /\ left.collapsed \in BOOLEAN /\ left.restore \in BOOLEAN
      /\ (left.restore <=> docking.collapsed /\ leaving > 0 /\ left.count = 0)
  BY DEF DockedLeave, TypeOK, SidebarTypeOK
<1>2. /\ joined.count = left.count + joining
      /\ (joined.collapse <=> joining > 0 /\ Expanded(navShown) /\ ~left.collapsed)
      /\ (joined.collapsed <=> left.collapsed \/ joined.collapse)
      /\ joined.collapse \in BOOLEAN /\ joined.collapsed \in BOOLEAN
  BY <1>1 DEF DockedJoin
<1>3. /\ docking' = [count |-> joined.count, collapsed |-> joined.collapsed]
      /\ nav'.open = IF joined.collapse THEN FALSE
                     ELSE IF left.restore THEN TRUE ELSE nav.open
      /\ UNCHANGED <<innerWidth, navShown>>
  BY DEF OnDockedOpenChange, TypeOK, SidebarTypeOK, NavState
<1>4. /\ docking.count \in Nat /\ docking.collapsed \in BOOLEAN
      /\ nav.open \in BOOLEAN /\ navShown.open \in BOOLEAN /\ innerWidth \in Nat
  BY InnerWidthAssumption DEF TypeOK, SidebarTypeOK, NavState, NavShown
<1>5. docking'.count = joined.count /\ docking'.collapsed = joined.collapsed
  BY <1>3
<1> HIDE DEF left, joined
<1>6. CASE docking.count = leaving /\ joining > 0 /\ dockedOver' = DockingHistory(leaving, joining)
  <2>1. CASE ~NavUpToDate \/ left.restore
    <3>1. dockedOver' = "unclear"
      BY <1>6, <2>1 DEF DockingHistory, left
    <3>2. docking'.count # 0
      BY <1>1, <1>2, <1>5, <1>6
    <3> QED
      BY <3>1, <3>2 DEF DockingInv, CleanDocking
  <2>2. CASE NavUpToDate /\ ~left.restore
    <3>1. dockedOver' = IF nav.open THEN "open" ELSE "closed"
      BY <1>6, <2>2 DEF DockingHistory, left
    <3>2. ~left.collapsed
      BY <1>1, <1>4, <1>6, <2>2 DEF DockingInv
    <3>3. navShown.layout = "desktop" /\ navShown.open = nav.open
      BY <1>4, <1>6, <2>2, DesktopLayout DEF NavUpToDate, NavRendered
    <3>4. Expanded(navShown) <=> nav.open
      BY <3>3 DEF Expanded
    <3>5. (joined.collapse <=> nav.open) /\ (joined.collapsed <=> nav.open)
      BY <1>2, <1>4, <1>6, <3>2, <3>4
    <3>6. docking'.count > 0 /\ (docking'.collapsed <=> nav.open) /\ ~nav'.open
      BY <1>1, <1>2, <1>3, <1>4, <1>5, <1>6, <2>2, <3>5
    <3> QED
      BY <1>3, <1>4, <3>1, <3>3, <3>6 DEF DockingInv, CleanDocking
  <2> QED
    BY <2>1, <2>2
<1>7. CASE docking.count = leaving /\ joining = 0
  <2>1. docking'.count = 0 /\ ~docking'.collapsed
    BY <1>1, <1>2, <1>4, <1>5, <1>7 DEF DockingInv
  <2>2. dockedOver' = dockedOver \/ dockedOver' = "unclear"
    BY <1>7 DEF DockingHistory
  <2>3. nav'.open <=> left.restore \/ nav.open
    BY <1>2, <1>3, <1>4, <1>7
  <2>4. CASE dockedOver' = "open"
    <3>1. dockedOver = "open"
      BY <2>2, <2>4
    <3>2. nav'.open
      BY <1>1, <1>4, <1>7, <2>3, <3>1 DEF DockingInv, CleanDocking
    <3> QED
      BY <2>1, <2>4, <3>2 DEF DockingInv, CleanDocking
  <2>5. CASE dockedOver' = "closed"
    <3>1. dockedOver = "closed"
      BY <2>2, <2>5
    <3>2. ~nav'.open
      BY <1>1, <1>4, <1>7, <2>3, <3>1 DEF DockingInv, CleanDocking
    <3> QED
      BY <2>1, <2>5, <3>2 DEF DockingInv, CleanDocking
  <2>6. CASE dockedOver' \notin {"open", "closed"}
    BY <2>1, <2>6 DEF DockingInv, CleanDocking
  <2> QED
    BY <2>4, <2>5, <2>6
<1>8. CASE docking.count # leaving
  <2>1. left.count > 0 /\ docking.count > 0 /\ docking'.count > 0
    BY <1>1, <1>2, <1>4, <1>5, <1>8
  <2>2. dockedOver' = dockedOver
    BY <1>8 DEF DockingHistory
  <2>3. (left.collapsed <=> docking.collapsed) /\ ~left.restore
    BY <1>1, <1>4, <2>1
  <2>4. CASE dockedOver = "open"
    <3>1. docking.collapsed /\ ~nav.open
      BY <1>4, <2>1, <2>4 DEF DockingInv, CleanDocking
    <3>2. ~joined.collapse /\ joined.collapsed
      BY <1>2, <2>3, <3>1
    <3>3. ~nav'.open /\ docking'.collapsed
      BY <1>3, <1>5, <2>3, <3>1, <3>2
    <3> QED
      BY <1>3, <2>1, <2>2, <2>4, <3>3 DEF DockingInv, CleanDocking
  <2>5. CASE dockedOver = "closed"
    <3>1. ~docking.collapsed /\ ~nav.open /\ ~navShown.open
      BY <1>4, <2>1, <2>5 DEF DockingInv, CleanDocking
    <3>2. joining > 0 => navShown.layout = "desktop"
      BY <2>1, <2>5 DEF DockingInv
    <3>3. ~joined.collapse
      BY <1>2, <3>1, <3>2 DEF Expanded
    <3>4. ~joined.collapsed
      BY <1>2, <2>3, <3>1, <3>3
    <3>5. ~nav'.open /\ ~docking'.collapsed
      BY <1>3, <1>5, <2>3, <3>1, <3>3, <3>4
    <3> QED
      BY <1>3, <2>1, <2>2, <2>5, <3>1, <3>5 DEF DockingInv, CleanDocking
  <2>6. CASE dockedOver \notin {"open", "closed"}
    BY <2>1, <2>2, <2>6 DEF DockingInv, CleanDocking
  <2> QED
    BY <2>4, <2>5, <2>6
<1>9. joining = 0 \/ joining > 0
  OBVIOUS
<1> QED
  BY <1>6, <1>7, <1>8, <1>9

\* The invariant a docking needs; the count says that somebody is docked at all.
DockedInv == TypeOK /\ CountsTheDocked /\ PaintedInv /\ DockingInv

LEMMA InitDocked == Init => DockedInv
<1> SUFFICES ASSUME Init PROVE DockedInv
  OBVIOUS
<1>1. TypeOK /\ CountsTheDocked
  BY InitCounted
<1>2. PICK openings \in FirstOpen, widths \in FirstWidths :
         /\ shown = FirstShown(FirstWanted(openings, widths))
         /\ ran = FirstRan(widths)
  BY DEF Init
<1>3. \A d \in Drawer : shown[d].mobile = Mobile(innerWidth)
  BY <1>2 DEF FirstShown, Paints
<1>4. \A d \in Drawer : shown[d].open => Parent[d] = TopLevel
  BY <1>2, DrawerAssumption DEF FirstShown, FirstWanted, Paints, Asks
<1>5. PaintedInv
  BY <1>3, <1>4 DEF PaintedInv, Mounted
<1>6. DockingInv
  BY DEF Init, SidebarInit, DockingInv, CleanDocking
<1> QED
  BY <1>1, <1>5, <1>6 DEF DockedInv

LEMMA ReloadDocked == DockedInv /\ Reload => PaintedInv' /\ DockingInv'
<1> SUFFICES ASSUME DockedInv, Reload PROVE PaintedInv' /\ DockingInv'
  OBVIOUS
<1>1. PICK openings \in FirstOpen, widths \in FirstWidths :
         /\ shown' = FirstShown(FirstWanted(openings, widths))
         /\ ran' = FirstRan(widths)
  BY DEF Reload
<1>2. innerWidth' = innerWidth
  BY DEF Reload, SidebarReload
<1>3. \A d \in Drawer : shown'[d].mobile = Mobile(innerWidth')
  BY <1>1, <1>2 DEF FirstShown, Paints
<1>4. \A d \in Drawer : shown'[d].open => Parent[d] = TopLevel
  BY <1>1, DrawerAssumption DEF FirstShown, FirstWanted, Paints, Asks
<1>5. PaintedInv'
  BY <1>3, <1>4 DEF PaintedInv, Mounted
<1>6. DockingInv'
  BY DEF Reload, SidebarReload, DockingInv, CleanDocking
<1> QED
  BY <1>5, <1>6

(***************************************************************************)
(* The window changes under a docking.  By then the sidebar and every      *)
(* drawer have heard of the last change, so a drawer that is docked        *)
(* vouches for the layout the sidebar was last rendered with.              *)
(***************************************************************************)
LEMMA ResizeDocked ==
  ASSUME DockedInv, EffectsRan, MediaHeard, Resize
  PROVE  PaintedInv' /\ DockingInv'
<1>1. UNCHANGED <<cookie, nav, navShown, docking, drawerVars, history>>
  BY DEF Resize, ResizeWindow
<1>2. PaintedInv'
  BY <1>1 DEF DockedInv, PaintedInv, EffectsRan, Mounted, drawerVars
<1>3. docking.count > 0 => navShown.layout = "desktop"
  <2> SUFFICES ASSUME docking.count > 0 PROVE navShown.layout = "desktop"
    OBVIOUS
  <2>1. {d \in Drawer : Docks(ran[d])} # {}
    <3>1. Cardinality({}) = 0
      BY FS_EmptySet
    <3> QED
      BY <3>1 DEF DockedInv, CountsTheDocked
  <2>2. PICK d \in Drawer : Docks(shown[d])
    BY <2>1 DEF EffectsRan
  <2>3. d \in Mounted /\ shown[d].mobile = Mobile(innerWidth)
    BY <2>2 DEF DockedInv, PaintedInv, Docks, MediaHeard, StaleDrawers
  <2>4. innerWidth \in Nat /\ navShown.layout = Layout(innerWidth)
    BY InnerWidthAssumption DEF DockedInv, TypeOK, SidebarTypeOK, MediaHeard, NavStale
  <2> QED
    BY <2>2, <2>3, <2>4, DesktopLayout DEF Docks
<1>4. DockingInv'
  BY <1>1, <1>3 DEF DockedInv, DockingInv, CleanDocking, history
<1> QED
  BY <1>2, <1>4

\* The other events, none of which touches the docking.
LEMMA EventDocked ==
  ASSUME DockedInv,
         \/ Toggle \/ Dismiss \/ EndDrag
         \/ \E d \in Drawer : Open(d) \/ Close(d) \/ StartDrag(d)
         \/ \E d \in Drawer : \E width \in Width[d] : SetWidth(d, width)
         \/ \E width \in UNION {DragTo[d] : d \in Drawer} : MoveDrag(width)
  PROVE  PaintedInv' /\ DockingInv'
<1>1. UNCHANGED <<innerWidth, navShown, docking, shown, ran, present>>
  BY DEF Toggle, ToggleSidebar, Dismiss, CloseSheet, EndDrag, Open, Close, StartDrag, SetWidth,
         MoveDrag, sidebarVars, drawerVars
<1>2. PaintedInv'
  BY <1>1 DEF DockedInv, PaintedInv, Mounted
<1>3. \/ dockedOver' \notin {"open", "closed"}
      \/ dockedOver' = dockedOver /\ nav'.open = nav.open
  <2>1. CASE Toggle
    <3>1. CASE navShown.layout = "desktop"
      BY <2>1, <3>1 DEF Toggle
    <3>2. CASE navShown.layout # "desktop"
      <4>1. nav'.open = nav.open
        BY <2>1, <3>2 DEF Toggle, ToggleSidebar, SetTabletExpanded, DockedInv, TypeOK,
                          SidebarTypeOK, NavState
      <4> QED
        BY <2>1, <3>2, <4>1 DEF Toggle
    <3> QED
      BY <3>1, <3>2
  <2>2. CASE Dismiss
    BY <2>2 DEF Dismiss, CloseSheet, history, DockedInv, TypeOK, SidebarTypeOK, NavState
  <2>3. CASE EndDrag
    BY <2>3 DEF EndDrag, sidebarVars, history
  <2>4. CASE \E d \in Drawer : Open(d) \/ Close(d) \/ StartDrag(d)
    BY <2>4 DEF Open, Close, StartDrag, sidebarVars, history
  <2>5. CASE \E d \in Drawer : \E width \in Width[d] : SetWidth(d, width)
    BY <2>5 DEF SetWidth, sidebarVars, history
  <2>6. CASE \E width \in UNION {DragTo[d] : d \in Drawer} : MoveDrag(width)
    BY <2>6 DEF MoveDrag, sidebarVars, history
  <2> QED
    BY <2>1, <2>2, <2>3, <2>4, <2>5, <2>6
<1>4. DockingInv'
  BY <1>1, <1>3 DEF DockedInv, DockingInv, CleanDocking
<1> QED
  BY <1>2, <1>4

(***************************************************************************)
(* A render paints for the window as it is, and mounts a panel before the  *)
(* drawers in it open; a panel that holds drawers stays until Exit.        *)
(***************************************************************************)
LEMMA CommitDocked == DockedInv /\ Commit => PaintedInv' /\ DockingInv'
<1> SUFFICES ASSUME DockedInv, Commit PROVE PaintedInv' /\ DockingInv'
  OBVIOUS
<1>1. PICK heard \in SUBSET StaleDrawers, navHeard \in {NavQueued, NavQueued \/ NavStale} :
       LET opening  == {d \in QueuedDrawers : want[d].open} \ present
           mounting == {d \in Drawer : Parent[d] \in opening}
           rendered == QueuedDrawers \cup heard \cup mounting
       IN  /\ IF navHeard THEN RenderNav ELSE UNCHANGED navShown
           /\ shown' = [d \in Drawer |->
                          IF d \in rendered THEN Paints(RenderedWant(d), Mobile(innerWidth))
                                            ELSE shown[d]]
           /\ present' = {d \in present \cup opening : want[d].open \/ Lingers(d)}
  BY DEF Commit
<1> DEFINE opening == {d \in QueuedDrawers : want[d].open} \ present
           mounting == {d \in Drawer : Parent[d] \in opening}
           rendered == QueuedDrawers \cup heard \cup mounting
<1>2. /\ IF navHeard THEN RenderNav ELSE UNCHANGED navShown
      /\ shown' = [d \in Drawer |->
                     IF d \in rendered THEN Paints(RenderedWant(d), Mobile(innerWidth))
                                       ELSE shown[d]]
      /\ present' = {d \in present \cup opening : want[d].open \/ Lingers(d)}
  BY <1>1
<1>3. EffectsRan /\ UNCHANGED <<innerWidth, nav, docking, ran, dockedOver>>
  BY DEF Commit
<1>4. \A d \in Drawer : shown'[d] # ran'[d] => shown'[d].mobile = Mobile(innerWidth')
  BY <1>2, <1>3 DEF EffectsRan, Paints
<1>5. \A d \in Mounted \cup mounting : d \in Mounted'
  BY <1>2 DEF Mounted, Lingers
<1>6. \A d \in Drawer : shown'[d].open => d \in Mounted \cup mounting
  <2>1. QueuedDrawers \cup heard \subseteq Mounted
    BY DEF QueuedDrawers, StaleDrawers
  <2>2. \A d \in Drawer : shown[d].open => d \in Mounted
    BY DEF DockedInv, PaintedInv
  <2> QED
    BY <1>2, <2>1, <2>2
<1>7. PaintedInv'
  BY <1>4, <1>5, <1>6 DEF PaintedInv
<1>8. \/ navShown' = navShown
      \/ navShown'.open = nav.open /\ navShown'.layout = Layout(innerWidth)
  BY <1>2 DEF RenderNav, NavRendered
<1>9. innerWidth \in Nat
  BY InnerWidthAssumption DEF DockedInv, TypeOK, SidebarTypeOK
<1>10. DockingInv'
  BY <1>3, <1>8, <1>9, DesktopLayout DEF DockedInv, DockingInv, CleanDocking
<1> QED
  BY <1>7, <1>10

LEMMA EffectsDocked == DockedInv /\ Effects => PaintedInv' /\ DockingInv'
<1> SUFFICES ASSUME DockedInv, Effects PROVE PaintedInv' /\ DockingInv'
  OBVIOUS
<1>0. TypeOK /\ CountsTheDocked /\ PaintedInv /\ DockingInv
  BY DEF DockedInv
<1> DEFINE overlays == \E d \in Redocked : shown[d].open /\ shown[d].mobile
<1>1. /\ ran' = shown
      /\ OnDockedOpenChange(Cardinality(Leaving), Cardinality(Joining), overlays)
      /\ dockedOver' = DockingHistory(Cardinality(Leaving), Cardinality(Joining))
      /\ UNCHANGED <<shown, present>>
  BY DEF Effects, Leaving, Joining
<1>2. PaintedInv'
  BY <1>0, <1>1 DEF PaintedInv, Mounted
<1>3. /\ Cardinality(Leaving) \in Nat /\ Cardinality(Joining) \in Nat
      /\ docking.count - Cardinality(Leaving) \in Nat
  BY <1>0, FlushCounts
<1>4. Cardinality(Joining) > 0 => ~Mobile(innerWidth)
  BY <1>0, JoiningDocks
<1>5. overlays \in BOOLEAN
  OBVIOUS
<1> HIDE DEF overlays
<1>6. DockingInv'
  BY <1>0, <1>1, <1>3, <1>4, <1>5, FlushClean
<1> QED
  BY <1>2, <1>6

LEMMA ExitDocked ==
  ASSUME DockedInv, EffectsRan, NEW d \in Drawer, Exit(d)
  PROVE  PaintedInv' /\ DockingInv'
<1>0. TypeOK /\ CountsTheDocked /\ PaintedInv /\ DockingInv
  BY DEF DockedInv
<1> DEFINE gone == {e \in Drawer : Parent[e] = d}
           out == {e \in gone : Docks(ran[e])}
<1>1. /\ present' = present \ (gone \cup {d})
      /\ want' = [e \in Drawer |-> IF e \in gone THEN Asks(FALSE, want[e].width) ELSE want[e]]
      /\ shown' = [e \in Drawer |-> IF e \in gone THEN Paints(want'[e], FALSE) ELSE shown[e]]
      /\ ran' = shown'
      /\ OnDockedOpenChange(Cardinality(out), 0, FALSE)
      /\ dockedOver' = dockedOver
  BY DEF Exit
<1>2. \A e \in Drawer : shown'[e].open => e \notin gone /\ shown[e].open
  BY <1>1 DEF Paints, Asks
<1>3. \A e \in Drawer : e \notin gone /\ e \in Mounted => e \in Mounted'
  <2> SUFFICES ASSUME NEW e \in Drawer, Parent[e] # d, Parent[e] # TopLevel, Parent[e] \in present
               PROVE  Parent[e] \in present'
    BY DEF Mounted
  <2>1. Parent[Parent[e]] = TopLevel
    BY DrawerAssumption
  <2>2. Parent[e] \notin gone
    BY <2>1, DrawerAssumption
  <2> QED
    BY <1>1, <2>2
<1>4. PaintedInv'
  BY <1>0, <1>1, <1>2, <1>3 DEF PaintedInv
<1>5. Cardinality(out) \in Nat /\ docking.count - Cardinality(out) \in Nat
  <2> DEFINE A == {e \in Drawer : Docks(ran[e])}
  <2>1. out \subseteq A
    OBVIOUS
  <2>2. IsFiniteSet(A)
    BY DrawerAssumption, FS_Subset
  <2>3. docking.count = Cardinality(A)
    BY <1>0 DEF CountsTheDocked
  <2> HIDE DEF A, out
  <2>4. Cardinality(out) <= Cardinality(A) /\ IsFiniteSet(out)
    BY <2>1, <2>2, FS_Subset
  <2>5. Cardinality(A) \in Nat /\ Cardinality(out) \in Nat
    BY <2>2, <2>4, FS_CardinalityType
  <2> QED
    BY <2>3, <2>4, <2>5
<1>6. DockingInv'
  <2> HIDE DEF out
  <2>1. 0 \in Nat /\ FALSE \in BOOLEAN /\ (0 > 0 => ~Mobile(innerWidth))
    OBVIOUS
  <2>2. OnDockedOpenChange(Cardinality(out), 0, FALSE) /\ dockedOver' = dockedOver
    BY <1>1
  <2> QED
    BY <1>0, <1>5, <2>1, <2>2, FlushClean
<1> QED
  BY <1>4, <1>6

LEMMA NextDocked == DockedInv /\ [Next]_vars => DockedInv'
<1> SUFFICES ASSUME DockedInv, [Next]_vars PROVE DockedInv'
  OBVIOUS
<1>1. TypeOK' /\ CountsTheDocked'
  BY NextCounted DEF DockedInv
<1>2. PaintedInv' /\ DockingInv'
  <2>1. CASE Event
    <3>1. CASE Reload
      BY <3>1, ReloadDocked
    <3>2. CASE Resize
      BY <2>1, <3>2, ResizeDocked DEF Event
    <3>3. ASSUME NEW d \in Drawer, Exit(d) PROVE PaintedInv' /\ DockingInv'
      BY <2>1, <3>3, ExitDocked DEF Event
    <3>4. CASE \/ Toggle \/ Dismiss \/ EndDrag
               \/ \E d \in Drawer : Open(d) \/ Close(d) \/ StartDrag(d)
               \/ \E d \in Drawer : \E width \in Width[d] : SetWidth(d, width)
               \/ \E width \in UNION {DragTo[d] : d \in Drawer} : MoveDrag(width)
      BY <3>4, EventDocked
    <3> QED
      BY <2>1, <3>1, <3>2, <3>3, <3>4 DEF Event
  <2>2. CASE Commit
    BY <2>2, CommitDocked
  <2>3. CASE Effects
    BY <2>3, EffectsDocked
  <2>4. CASE UNCHANGED vars
    <3>1. UNCHANGED <<innerWidth, nav, navShown, docking, shown, ran, present, dockedOver>>
      BY <2>4 DEF vars, sidebarVars, drawerVars, history
    <3> QED
      BY <3>1 DEF DockedInv, PaintedInv, DockingInv, CleanDocking, Mounted
  <2> QED
    BY <2>1, <2>2, <2>3, <2>4 DEF Next
<1> QED
  BY <1>1, <1>2 DEF DockedInv

(***************************************************************************)
(* A docking that begins over an up-to-date sidebar, which the teacher     *)
(* then leaves alone, collapses it and gives it back as it was: whatever   *)
(* the window does meanwhile, and however late React renders.              *)
(***************************************************************************)
THEOREM DockingsAreClean == Spec => []CleanDocking
<1>1. DockedInv => CleanDocking
  BY DEF DockedInv, DockingInv
<1> QED
  BY <1>1, InitDocked, NextDocked, PTL DEF Spec

-----------------------------------------------------------------------------
(***************************************************************************)
(* The page's padding, and one drawer under each parent.  Both follow what *)
(* the effects last ran with, whatever the owners ask for meanwhile.       *)
(***************************************************************************)
\* A drawer has registered the room it took when its effects last ran.
PaddingInv ==
  dockedWidths = [d \in Drawer |->
    IF PushesPage(d, ran[d]) THEN ResolvedWidth(ran[d]) + Inset ELSE 0]

\* The drawers of a group are those whose effects last ran with them open.
RegisteredInv == openDockedDrawers = {d \in Drawer : ran[d].open}

\* Of two that are open beside each other, one is being closed or was spared.
ExclusiveInv ==
  \A d, e \in Drawer :
    d # e /\ Parent[d] = Parent[e] /\ ran[d].open /\ ran[e].open =>
      ~want[d].open \/ ~want[e].open \/ {d, e} \cap spared # {}

GroupInv == PaddingInv /\ RegisteredInv /\ ExclusiveInv

\* Nothing is open in a page whose effects have not run.
LEMMA FirstPageGrouped ==
  ASSUME NEW widths \in FirstWidths
  PROVE  \A d \in Drawer : ~FirstRan(widths)[d].open /\ ~PushesPage(d, FirstRan(widths)[d])
BY DEF FirstRan, PushesPage, Paints, Asks

LEMMA InitGrouped == Init => GroupInv
<1> SUFFICES ASSUME Init PROVE GroupInv
  OBVIOUS
<1>1. PICK widths \in FirstWidths : ran = FirstRan(widths)
  BY DEF Init
<1>2. \A d \in Drawer : ~ran[d].open /\ ~PushesPage(d, ran[d])
  BY <1>1, FirstPageGrouped
<1> QED
  BY <1>2 DEF Init, GroupInv, PaddingInv, RegisteredInv, ExclusiveInv

LEMMA ReloadGrouped == Reload => GroupInv'
<1> SUFFICES ASSUME Reload PROVE GroupInv'
  OBVIOUS
<1>1. PICK widths \in FirstWidths : ran' = FirstRan(widths)
  BY DEF Reload
<1>2. \A d \in Drawer : ~ran'[d].open /\ ~PushesPage(d, ran'[d])
  BY <1>1, FirstPageGrouped DEF FirstRan, PushesPage
<1>3. openDockedDrawers' = {} /\ dockedWidths' = [d \in Drawer |-> 0]
  BY DEF Reload
<1>4. PaddingInv'
  BY <1>2, <1>3 DEF PaddingInv, PushesPage
<1> QED
  BY <1>2, <1>3, <1>4 DEF GroupInv, RegisteredInv, ExclusiveInv

(***************************************************************************)
(* Events between two flushes.  Only Open can ask for two at once, and it  *)
(* spares the drawer it reopens if that one has not closed yet.            *)
(***************************************************************************)
LEMMA UnranGrouped ==
  ASSUME GroupInv, UNCHANGED <<ran, openDockedDrawers, dockedWidths>>,
         \A d \in Drawer : want'[d].open => want[d].open \/ d \in spared' \/ ~ran[d].open
                                            \/ Siblings(d, Drawer) = {},
         \A d \in spared \ spared' :
            ~want'[d].open \/ \A e \in Siblings(d, Drawer) : ~want'[e].open
  PROVE  GroupInv'
<1>1. PaddingInv' /\ RegisteredInv'
  BY DEF GroupInv, PaddingInv, RegisteredInv, PushesPage, ResolvedWidth
<1>2. ExclusiveInv'
  <2> SUFFICES ASSUME NEW d \in Drawer, NEW e \in Drawer, d # e, Parent[d] = Parent[e],
                      ran'[d].open, ran'[e].open, want'[d].open, want'[e].open
               PROVE  {d, e} \cap spared' # {}
    BY DEF ExclusiveInv
  <2>1. e \in Siblings(d, Drawer) /\ d \in Siblings(e, Drawer)
    BY DEF Siblings
  <2>2. CASE want[d].open /\ want[e].open
    BY <2>1, <2>2 DEF GroupInv, ExclusiveInv
  <2>3. CASE ~want[d].open \/ ~want[e].open
    BY <2>1, <2>3
  <2> QED
    BY <2>2, <2>3
<1> QED
  BY <1>1, <1>2 DEF GroupInv

LEMMA EventGrouped ==
  ASSUME TypeOK, GroupInv, EffectsRan,
         \/ Resize \/ Toggle \/ Dismiss \/ EndDrag
         \/ \E d \in Drawer : Open(d) \/ Close(d) \/ StartDrag(d)
         \/ \E d \in Drawer : \E width \in Width[d] : SetWidth(d, width)
         \/ \E width \in UNION {DragTo[d] : d \in Drawer} : MoveDrag(width)
  PROVE  GroupInv'
<1>0. want \in [Drawer -> Wanted]
  BY DEF TypeOK
<1>1. UNCHANGED <<ran, openDockedDrawers, dockedWidths>>
  BY DEF Resize, Toggle, Dismiss, EndDrag, Open, Close, StartDrag, SetWidth, MoveDrag, drawerVars
<1>2. spared \subseteq spared'
  BY DEF Resize, Toggle, Dismiss, EndDrag, Open, Close, StartDrag, SetWidth, MoveDrag, history
<1>3. CASE \/ Resize \/ Toggle \/ Dismiss \/ EndDrag \/ \E d \in Drawer : StartDrag(d)
  <2>1. want' = want
    BY <1>3 DEF Resize, Toggle, Dismiss, EndDrag, StartDrag, drawerVars
  <2> QED
    BY <1>1, <1>2, <2>1, UnranGrouped
<1>4. ASSUME NEW d \in Drawer, Open(d) PROVE GroupInv'
  <2>1. \A e \in Drawer \ {d} : want'[e] = want[e]
    BY <1>0, <1>4 DEF Open
  <2>2. d \in spared' \/ ~ran[d].open \/ Siblings(d, Drawer) = {}
    BY <1>4 DEF Open, EffectsRan
  <2> QED
    BY <1>1, <1>2, <2>1, <2>2, UnranGrouped
<1>5. ASSUME NEW d \in Drawer, Close(d) PROVE GroupInv'
  <2>1. \A e \in Drawer : want'[e].open => want[e].open
    BY <1>0, <1>5 DEF Close, Wanted
  <2> QED
    BY <1>1, <1>2, <2>1, UnranGrouped
<1>6. ASSUME NEW d \in Drawer, NEW width \in Width[d], SetWidth(d, width) PROVE GroupInv'
  <2>1. \A e \in Drawer : want'[e].open = want[e].open
    BY <1>0, <1>6 DEF SetWidth, Wanted
  <2> QED
    BY <1>1, <1>2, <2>1, UnranGrouped
<1>7. ASSUME NEW width, MoveDrag(width) PROVE GroupInv'
  <2>1. \A e \in Drawer : want'[e].open = want[e].open
    BY <1>0, <1>7 DEF MoveDrag, Wanted
  <2> QED
    BY <1>1, <1>2, <2>1, UnranGrouped
<1> QED
  BY <1>3, <1>4, <1>5, <1>6, <1>7

\* A render forgets a drawer it has spared only once its siblings are to close, or it is.
LEMMA CommitGrouped == TypeOK /\ GroupInv /\ Commit => GroupInv'
<1> SUFFICES ASSUME TypeOK, GroupInv, Commit PROVE GroupInv'
  OBVIOUS
<1>1. \E rendered \in SUBSET Drawer :
        want' = [d \in Drawer |-> IF d \in rendered THEN RenderedWant(d) ELSE want[d]]
  <2>1. PICK heard \in SUBSET StaleDrawers :
          LET opening  == {d \in QueuedDrawers : want[d].open} \ present
              mounting == {d \in Drawer : Parent[d] \in opening}
              rendered == QueuedDrawers \cup heard \cup mounting
          IN  want' = [d \in Drawer |-> IF d \in rendered THEN RenderedWant(d) ELSE want[d]]
    BY DEF Commit
  <2> DEFINE opening  == {d \in QueuedDrawers : want[d].open} \ present
             mounting == {d \in Drawer : Parent[d] \in opening}
             rendered == QueuedDrawers \cup heard \cup mounting
  <2>2. rendered \in SUBSET Drawer
    BY DEF QueuedDrawers, StaleDrawers, Mounted
  <2>3. want' = [d \in Drawer |-> IF d \in rendered THEN RenderedWant(d) ELSE want[d]]
    BY <2>1
  <2> QED
    BY <2>2, <2>3
<1>2. \A d \in Drawer : RenderedWant(d).open = want[d].open
  BY DEF RenderedWant, TypeOK, Wanted
<1>3. \A d \in Drawer : want'[d].open = want[d].open
  BY <1>1, <1>2
<1>4. spared' = {d \in spared : want[d].open /\ \E e \in Siblings(d, Drawer) : want[e].open}
  BY DEF Commit
<1>5. spared \subseteq Drawer /\ \A d \in Drawer : Siblings(d, Drawer) \subseteq Drawer
  BY DEF TypeOK, Siblings
<1>6. \A d \in spared \ spared' :
         ~want'[d].open \/ \A e \in Siblings(d, Drawer) : ~want'[e].open
  BY <1>3, <1>4, <1>5
<1>7. UNCHANGED <<ran, openDockedDrawers, dockedWidths>>
  BY DEF Commit
<1> QED
  BY <1>3, <1>6, <1>7, UnranGrouped

(***************************************************************************)
(* One flush: the last drawer of a group to open finds every other of them *)
(* registered, asks it to close, and spares those that refuse.             *)
(***************************************************************************)
LEMMA EffectsGrouped == TypeOK /\ GroupInv /\ Effects => GroupInv'
<1> SUFFICES ASSUME TypeOK, GroupInv, Effects PROVE GroupInv'
  OBVIOUS
<1>1. /\ ran' = shown /\ shown' = shown
      /\ openDockedDrawers' = Registered
      /\ dockedWidths' = [d \in Drawer |->
           IF PushesPage(d, shown[d]) THEN ResolvedWidth(shown[d]) + Inset ELSE 0]
  BY DEF Effects
<1>2. PaddingInv'
  BY <1>1 DEF PaddingInv, PushesPage, ResolvedWidth
<1>3. Registered = {d \in Drawer : shown[d].open}
  BY DEF GroupInv, RegisteredInv, Registered, Shut, Opened
<1>4. RegisteredInv'
  BY <1>1, <1>3 DEF RegisteredInv
<1>5. PICK last \in LastOpened :
        /\ want' = [d \in Drawer |-> IF d \in AskedToClose(last) \ Stubborn
                                     THEN [want[d] EXCEPT !.open = FALSE] ELSE want[d]]
        /\ spared' = spared \cup {d \in AskedToClose(last) \cap Stubborn : want[d].open}
  BY DEF Effects
<1>6. \A d \in Drawer : want'[d].open => want[d].open /\ d \notin AskedToClose(last) \ Stubborn
  BY <1>5 DEF TypeOK, Wanted
<1>7. \A d \in AskedToClose(last) : d \in Drawer => ~want'[d].open \/ d \in spared'
  BY <1>5, <1>6
<1>8. ASSUME NEW d \in Drawer, NEW e \in Drawer, d # e, Parent[d] = Parent[e],
             shown[d].open, shown[e].open, ~ran[d].open
      PROVE  d \in AskedToClose(last) \/ e \in AskedToClose(last)
  <2>1. d \in Opened /\ {d, e} \subseteq Registered
    BY <1>3, <1>8 DEF Opened
  <2>2. PICK l \in last : Parent[l] = Parent[d]
    BY <2>1 DEF LastOpened
  <2>3. d # l => d \in Siblings(l, Registered)
    BY <2>1, <2>2 DEF Siblings
  <2>4. d = l => e \in Siblings(l, Registered)
    BY <1>8, <2>1 DEF Siblings
  <2> QED
    BY <2>2, <2>3, <2>4 DEF AskedToClose
<1>9. ExclusiveInv'
  <2> SUFFICES ASSUME NEW d \in Drawer, NEW e \in Drawer, d # e, Parent[d] = Parent[e],
                      shown[d].open, shown[e].open, want'[d].open, want'[e].open
               PROVE  {d, e} \cap spared' # {}
    BY <1>1 DEF ExclusiveInv
  <2>1. CASE ran[d].open /\ ran[e].open
    BY <1>5, <1>6, <2>1 DEF GroupInv, ExclusiveInv
  <2>2. CASE ~ran[d].open \/ ~ran[e].open
    <3>1. d \in AskedToClose(last) \/ e \in AskedToClose(last)
      BY <1>8, <2>2
    <3> QED
      BY <1>7, <3>1
  <2> QED
    BY <2>1, <2>2
<1> QED
  BY <1>2, <1>4, <1>9 DEF GroupInv

\* The drawers of a panel that unmounts leave their group and give back their room.
LEMMA ExitGrouped ==
  ASSUME TypeOK, GroupInv, EffectsRan, NEW d \in Drawer, Exit(d)
  PROVE  GroupInv'
<1> DEFINE gone == {e \in Drawer : Parent[e] = d}
<1>1. /\ want' = [e \in Drawer |-> IF e \in gone THEN Asks(FALSE, want[e].width) ELSE want[e]]
      /\ shown' = [e \in Drawer |-> IF e \in gone THEN Paints(want'[e], FALSE) ELSE shown[e]]
      /\ ran' = shown'
      /\ openDockedDrawers' = openDockedDrawers \ gone
      /\ dockedWidths' = [e \in Drawer |-> IF e \in gone THEN 0 ELSE dockedWidths[e]]
      /\ spared' = spared \ gone
  BY DEF Exit
<1>2. \A e \in gone : ~ran'[e].open
  BY <1>1 DEF Paints, Asks
<1>3. \A e \in Drawer \ gone : ran'[e] = ran[e] /\ want'[e] = want[e]
  BY <1>1 DEF EffectsRan
<1> HIDE DEF gone
<1>4. PaddingInv'
  <2>1. \A e \in Drawer :
          dockedWidths'[e] = IF PushesPage(e, ran'[e]) THEN ResolvedWidth(ran'[e]) + Inset ELSE 0
    <3>1. ASSUME NEW e \in gone, e \in Drawer
          PROVE  dockedWidths'[e] = 0 /\ ~PushesPage(e, ran'[e])
      BY <1>1, <1>2, <3>1 DEF PushesPage
    <3>2. ASSUME NEW e \in Drawer \ gone
          PROVE  dockedWidths'[e] = dockedWidths[e] /\ ran'[e] = ran[e]
      BY <1>1, <1>3
    <3> QED
      BY <3>1, <3>2 DEF GroupInv, PaddingInv
  <2>2. DOMAIN dockedWidths' = Drawer /\ dockedWidths' = [e \in Drawer |-> dockedWidths'[e]]
    BY <1>1
  <2> QED
    BY <2>1, <2>2 DEF PaddingInv, PushesPage, ResolvedWidth
<1>5. RegisteredInv'
  BY <1>1, <1>2, <1>3 DEF GroupInv, RegisteredInv
<1>6. ExclusiveInv'
  <2> SUFFICES ASSUME NEW e \in Drawer, NEW f \in Drawer, e # f, Parent[e] = Parent[f],
                      ran'[e].open, ran'[f].open, want'[e].open, want'[f].open
               PROVE  {e, f} \cap spared' # {}
    BY DEF ExclusiveInv
  <2>1. e \notin gone /\ f \notin gone
    BY <1>2
  <2>2. ran[e].open /\ ran[f].open /\ want[e].open /\ want[f].open
    BY <1>3, <2>1
  <2>3. {e, f} \cap spared # {}
    BY <2>2 DEF GroupInv, ExclusiveInv
  <2> QED
    BY <1>1, <2>1, <2>3
<1> QED
  BY <1>4, <1>5, <1>6 DEF GroupInv

LEMMA NextGrouped == TypeOK /\ GroupInv /\ [Next]_vars => GroupInv'
<1> SUFFICES ASSUME TypeOK, GroupInv, [Next]_vars PROVE GroupInv'
  OBVIOUS
<1>1. CASE Event
  <2>1. CASE Reload
    BY <2>1, ReloadGrouped
  <2>2. ASSUME NEW d \in Drawer, Exit(d) PROVE GroupInv'
    BY <1>1, <2>2, ExitGrouped DEF Event
  <2>3. CASE \/ Resize \/ Toggle \/ Dismiss \/ EndDrag
             \/ \E d \in Drawer : Open(d) \/ Close(d) \/ StartDrag(d)
             \/ \E d \in Drawer : \E width \in Width[d] : SetWidth(d, width)
             \/ \E width \in UNION {DragTo[d] : d \in Drawer} : MoveDrag(width)
    BY <1>1, <2>3, EventGrouped DEF Event
  <2> QED
    BY <1>1, <2>1, <2>2, <2>3 DEF Event
<1>2. CASE Commit
  BY <1>2, CommitGrouped
<1>3. CASE Effects
  BY <1>3, EffectsGrouped
<1>4. CASE UNCHANGED vars
  <2>1. UNCHANGED <<want, ran, openDockedDrawers, dockedWidths, spared>>
    BY <1>4 DEF vars, drawerVars, history
  <2> QED
    BY <2>1, UnranGrouped
<1> QED
  BY <1>1, <1>2, <1>3, <1>4 DEF Next

\* A settled page has run its effects with what its owners and its window ask.
LEMMA SettledRan ==
  ASSUME Settled
  PROVE  /\ ran = shown
         /\ \A d \in Mounted : /\ ran[d].open = want[d].open /\ ran[d].width = want[d].width
                               /\ ran[d].dragged = want[d].dragged
                               /\ ran[d].mobile = Mobile(innerWidth)
<1> SUFFICES ASSUME NEW d \in Mounted
             PROVE  /\ ran[d].open = want[d].open /\ ran[d].width = want[d].width
                    /\ ran[d].dragged = want[d].dragged
                    /\ ran[d].mobile = Mobile(innerWidth)
  BY DEF Settled, EffectsRan
<1>1. [open |-> ran[d].open, width |-> ran[d].width, dragged |-> ran[d].dragged] = want[d]
  BY DEF Settled, EffectsRan, QueuedDrawers, Queued
<1>2. ran[d].mobile = Mobile(innerWidth)
  BY DEF Settled, EffectsRan, MediaHeard, StaleDrawers
<1> QED
  BY <1>1, <1>2

(***************************************************************************)
(* The padding published for the page is the room the panels beside it     *)
(* take, once the page has settled: whatever was rendered in which order,  *)
(* and whichever drawers were unmounted open.                              *)
(***************************************************************************)
THEOREM PageAlwaysMakesRoom == Spec => []PageMakesRoom
<1>1. GroupInv => PageMakesRoom
  <2> SUFFICES ASSUME GroupInv, Settled
               PROVE  Total(dockedWidths) = Total([d \in Drawer |->
                        IF Parent[d] = TopLevel /\ want[d].open /\ ~Mobile(innerWidth)
                        THEN ResolvedWidth(want[d]) + Inset ELSE 0])
    BY DEF PageMakesRoom, Published
  <2>1. ASSUME NEW d \in Drawer
        PROVE  (IF PushesPage(d, ran[d]) THEN ResolvedWidth(ran[d]) + Inset ELSE 0)
               = IF Parent[d] = TopLevel /\ want[d].open /\ ~Mobile(innerWidth)
                 THEN ResolvedWidth(want[d]) + Inset ELSE 0
    <3>1. CASE Parent[d] = TopLevel
      <4>1. d \in Mounted
        BY <3>1 DEF Mounted
      <4> QED
        BY <4>1, SettledRan DEF PushesPage, ResolvedWidth
    <3>2. CASE Parent[d] # TopLevel
      BY <3>2 DEF PushesPage
    <3> QED
      BY <3>1, <3>2
  <2>2. dockedWidths = [d \in Drawer |->
          IF Parent[d] = TopLevel /\ want[d].open /\ ~Mobile(innerWidth)
          THEN ResolvedWidth(want[d]) + Inset ELSE 0]
    BY <2>1 DEF GroupInv, PaddingInv
  <2> QED
    BY <2>2
<1> QED
  BY <1>1, InitGrouped, NextGrouped, DockedTypes, PTL DEF Spec

(***************************************************************************)
(* One docked drawer is open at a time under the same parent, unless its   *)
(* owner refuses to close it or opens it again before it has closed: for   *)
(* every number of drawers, and in whatever order their effects run.       *)
(***************************************************************************)
THEOREM AlwaysOneUnderEachParent == Spec => []OneUnderEachParent
<1>1. GroupInv => OneUnderEachParent
  <2> SUFFICES ASSUME GroupInv, Settled,
                      NEW d \in Mounted, NEW e \in Mounted, shown[d].open, shown[e].open,
                      d # e, Parent[d] = Parent[e]
               PROVE  {d, e} \cap spared # {}
    BY DEF OneUnderEachParent
  <2>1. d \in Drawer /\ e \in Drawer
    BY DEF Mounted
  <2>2. ran[d].open /\ ran[e].open /\ want[d].open /\ want[e].open
    BY SettledRan
  <2> QED
    BY <2>1, <2>2 DEF GroupInv, ExclusiveInv
<1> QED
  BY <1>1, InitGrouped, NextGrouped, DockedTypes, PTL DEF Spec

-----------------------------------------------------------------------------
(***************************************************************************)
(* The two cookies and the pointer.                                        *)
(***************************************************************************)
\* Opening, closing and dragging drawers leaves the sidebar to itself.
LEMMA SidebarLeftAlone ==
  ASSUME \/ Resize \/ EndDrag \/ Commit
         \/ \E d \in Drawer : Open(d) \/ Close(d) \/ StartDrag(d)
         \/ \E d \in Drawer : \E width \in Width[d] : SetWidth(d, width)
         \/ \E width \in UNION {DragTo[d] : d \in Drawer} : MoveDrag(width)
  PROVE  UNCHANGED <<cookie, nav>>
BY DEF Resize, ResizeWindow, EndDrag, Commit, Open, Close, StartDrag, SetWidth, MoveDrag, sidebarVars

LEMMA NextRemembers == TypeOK /\ ChoicesRemembered /\ [Next]_vars => ChoicesRemembered'
<1> SUFFICES ASSUME TypeOK, ChoicesRemembered, [Next]_vars PROVE ChoicesRemembered'
  OBVIOUS
<1>1. /\ nav \in NavState /\ cookie \in [desktop : BOOLEAN, tablet : BOOLEAN]
      /\ nav.open = cookie.desktop /\ nav.tabletExpanded = cookie.tablet
  BY DEF TypeOK, SidebarTypeOK, ChoicesRemembered
<1>2. \A leaving, joining, overlays :
        OnDockedOpenChange(leaving, joining, overlays) => ChoicesRemembered'
  <2> SUFFICES ASSUME NEW leaving, NEW joining, NEW overlays,
                      OnDockedOpenChange(leaving, joining, overlays)
               PROVE  ChoicesRemembered'
    OBVIOUS
  <2> DEFINE left == DockedLeave(leaving)
             joined == DockedJoin(left, joining)
             open == IF joined.collapse THEN FALSE ELSE IF left.restore THEN TRUE ELSE nav.open
  <2>1. /\ nav' = [nav EXCEPT !.open = open, !.openMobile = nav.openMobile /\ ~overlays]
        /\ cookie' = IF left.restore \/ joined.collapse
                     THEN [cookie EXCEPT !.desktop = open] ELSE cookie
    BY DEF OnDockedOpenChange
  <2>2. nav'.open = open /\ nav'.tabletExpanded = nav.tabletExpanded
    BY <1>1, <2>1 DEF NavState
  <2>3. cookie'.desktop = open /\ cookie'.tablet = cookie.tablet
    BY <1>1, <2>1
  <2> QED
    BY <1>1, <2>2, <2>3 DEF ChoicesRemembered
<1>3. CASE Toggle
  BY <1>1, <1>3 DEF Toggle, ToggleSidebar, SetOpen, SetTabletExpanded, NavState, ChoicesRemembered
<1>4. CASE Dismiss
  BY <1>1, <1>4 DEF Dismiss, CloseSheet, NavState, ChoicesRemembered
<1>5. CASE Reload
  BY <1>5 DEF Reload, SidebarReload, StoredNav, ChoicesRemembered
<1>6. CASE Effects \/ \E d \in Drawer : Exit(d)
  BY <1>2, <1>6 DEF Effects, Exit
<1>7. CASE \/ Resize \/ EndDrag \/ Commit
           \/ \E d \in Drawer : Open(d) \/ Close(d) \/ StartDrag(d)
           \/ \E d \in Drawer : \E width \in Width[d] : SetWidth(d, width)
           \/ \E width \in UNION {DragTo[d] : d \in Drawer} : MoveDrag(width)
  BY <1>1, <1>7, SidebarLeftAlone DEF ChoicesRemembered
<1>8. CASE UNCHANGED vars
  BY <1>1, <1>8 DEF vars, sidebarVars, ChoicesRemembered
<1> QED
  BY <1>3, <1>4, <1>5, <1>6, <1>7, <1>8 DEF Next, Event

\* A stored preference is the one in force, however stale the closure that wrote it.
THEOREM PreferencesRemembered == Spec => []ChoicesRemembered
<1>1. Init => ChoicesRemembered
  BY DEF Init, SidebarInit, StoredNav, ChoicesRemembered
<1> QED
  BY <1>1, NextRemembers, DockedTypes, PTL DEF Spec

\* The drawer whose edge is held is in the page: no commit removes it, and Exit lets go of it.
LEMMA NextGivesBack == TypeOK /\ CursorGivenBack /\ [Next]_vars => CursorGivenBack'
<1> SUFFICES ASSUME TypeOK, CursorGivenBack, [Next]_vars PROVE CursorGivenBack'
  OBVIOUS
<1>1. CASE \/ Resize \/ Toggle \/ Dismiss \/ Effects
           \/ \E d \in Drawer : Open(d) \/ Close(d)
           \/ \E d \in Drawer : \E width \in Width[d] : SetWidth(d, width)
           \/ \E width \in UNION {DragTo[d] : d \in Drawer} : MoveDrag(width)
  <2>1. UNCHANGED <<present, drag, cursor>>
    BY <1>1 DEF Resize, Toggle, Dismiss, Effects, Open, Close, SetWidth, MoveDrag, drawerVars
  <2> QED
    BY <2>1 DEF CursorGivenBack
<1>2. ASSUME NEW d \in Drawer, StartDrag(d) PROVE CursorGivenBack'
  BY <1>2, DrawerAssumption DEF StartDrag, CursorGivenBack
<1>3. CASE EndDrag \/ Reload
  BY <1>3 DEF EndDrag, Reload, CursorGivenBack
<1>4. CASE Commit
  <2>1. drag \in present => drag \in present'
    BY <1>4 DEF Commit, Lingers
  <2>2. UNCHANGED <<drag, cursor>>
    BY <1>4 DEF Commit
  <2> QED
    BY <2>1, <2>2 DEF CursorGivenBack
<1>5. ASSUME NEW d \in Drawer, Exit(d) PROVE CursorGivenBack'
  BY <1>5 DEF Exit, CursorGivenBack
<1>6. CASE UNCHANGED vars
  BY <1>6 DEF vars, drawerVars, CursorGivenBack
<1> QED
  BY <1>1, <1>2, <1>3, <1>4, <1>5, <1>6 DEF Next, Event

\* A panel that leaves the page while its edge is held gives the cursor back.
THEOREM CursorAlwaysGivenBack == Spec => []CursorGivenBack
<1>1. Init => CursorGivenBack
  BY DEF Init, CursorGivenBack
<1> QED
  BY <1>1, NextGivesBack, DockedTypes, PTL DEF Spec

=============================================================================
