------------------------------ MODULE NearbyVenues ------------------------------
(***************************************************************************)
(* The screen that lists nearby venues (NearbyLocationsVC), with the two   *)
(* screens it leads to: a venue's details (RestaurantDetailsVC) and its    *)
(* menu (MenuDetailsVC.viewDidLoad). All of it runs on the main queue.     *)
(***************************************************************************)
EXTENDS VenueRequests

CONSTANT MaxTaps  \* bound: presses of the filter button

VARIABLES
    filter,           \* list only venues known to have a menu
    venuesWithMenus,  \* the venues listed then, as of the last press
    rows,             \* the table since its last reload: the venue whose
                      \* data each cell shows, Nil for a fresh cell
    screen,           \* list, details or menu
    opened,           \* the venue handed to the details screen
    viewMenuButton,   \* whether that screen offers the menu
    trapped,          \* no, or the process died: in the list ("row"), or
                      \* opening the menu ("menu")
    taps

list == <<filter, venuesWithMenus, rows>>
navigation == <<screen, opened, viewMenuButton, trapped>>
vars == <<requests, list, navigation, taps>>

ASSUME TapsAssumption == MaxTaps \in Nat

TypeOK ==
    /\ RequestsTypeOK
    /\ filter \in BOOLEAN
    /\ venuesWithMenus \in Seq(Objects)
    /\ rows \in Seq(Objects \cup {Nil})
    /\ screen \in {"list", "details", "menu"}
    /\ opened \in Objects \cup {Nil}
    /\ viewMenuButton \in BOOLEAN
    /\ trapped \in {"no", "row", "menu"}
    /\ taps \in 0 .. MaxTaps

Init ==
    /\ RequestsInit
    /\ filter = FALSE
    /\ venuesWithMenus = <<>>
    /\ rows = <<>>
    /\ screen = "list"
    /\ opened = Nil
    /\ viewMenuButton = FALSE
    /\ trapped = "no"
    /\ taps = 0

------------------------
\* nearbyVenues?.venues
NearbyList(h, lists) == IF h = 0 THEN Nil ELSE lists[h]

\* What a cell shows after cellForRow for the venue o: without details the
\* cell is returned as it was dequeued, fresh or with another venue's data.
CellsFor(o) ==
    IF o # Nil /\ details[o] # "none" THEN {o}
    ELSE {Nil} \cup {rows[i] : i \in DOMAIN rows}

\* reloadData, with the table's data source as it is after the step.
ReloadTable(f, menus, lists) ==
    LET source == IF f THEN menus
                  ELSE IF NearbyList(helpers, lists) = Nil THEN <<>>
                  ELSE NearbyList(helpers, lists)
        cells == UNION {CellsFor(source[i]) : i \in DOMAIN source}
    IN  rows' \in {r \in [DOMAIN source -> cells] :
                      \A i \in DOMAIN source : r[i] \in CellsFor(source[i])}

Running == trapped = "no"

LocationDelivered == Running /\ NewHelper /\ UNCHANGED <<list, navigation, taps>>

TaskCompletes ==
    /\ Running
    /\ SearchCompletes \/ DetailsComplete \/ MenuCompletes \/ \E t \in tasks : TaskFails(t)
    /\ UNCHANGED <<list, navigation, taps>>

ListPublished ==
    /\ Running
    /\ PublishBlock
    /\ UNCHANGED <<list, navigation, taps>>

\* .reload is posted: reloadTableData.
TableReloaded ==
    /\ Running
    /\ ReloadBlock
    /\ ReloadTable(filter, venuesWithMenus, venues)
    /\ UNCHANGED <<filter, venuesWithMenus, navigation, taps>>

\* The loop over a list that keeps the venues known to have a menu.
KnownToHaveMenu(ven) ==
    LET kept[n \in 0 .. Len(ven)] ==
            IF n = 0 THEN <<>>
            ELSE IF hasMenu[ven[n]] = "true" THEN Append(kept[n - 1], ven[n])
            ELSE kept[n - 1]
    IN  kept[Len(ven)]

WithMenu ==
    LET ven == NearbyList(helpers, venues)
    IN  IF ven = Nil THEN <<>> ELSE KnownToHaveMenu(ven)

\* Mutant: no reload after the list was exchanged.
FilterPressed_NoReload ==
    /\ Running /\ screen = "list" /\ taps < MaxTaps
    /\ taps' = taps + 1
    /\ filter' = ~filter
    /\ venuesWithMenus' = IF filter' THEN WithMenu ELSE venuesWithMenus
    /\ UNCHANGED <<requests, rows, navigation>>

FilterPressed ==
    /\ Running /\ screen = "list" /\ taps < MaxTaps
    /\ taps' = taps + 1
    /\ filter' = ~filter
    /\ venuesWithMenus' = IF filter' THEN WithMenu ELSE venuesWithMenus
    /\ ReloadTable(filter', venuesWithMenus', venues)
    /\ UNCHANGED <<requests, navigation>>

Trap(where) == trapped' = where /\ UNCHANGED <<screen, opened, viewMenuButton>>

\* A row scrolls into view: cellForRow. Without a list the cell stays as it is.
RowDisplayed(i) ==
    LET source == IF filter THEN venuesWithMenus ELSE NearbyList(helpers, venues)
    IN  /\ Running /\ screen = "list"
        /\ i \in DOMAIN rows
        /\ IF source # Nil /\ i \notin DOMAIN source
           THEN Trap("row") /\ UNCHANGED rows
           ELSE /\ \E c \in CellsFor(IF source = Nil THEN Nil ELSE source[i]) :
                     rows' = [rows EXCEPT ![i] = c]
                /\ UNCHANGED navigation
        /\ UNCHANGED <<requests, filter, venuesWithMenus, taps>>

\* RestaurantDetailsVC.viewDidLoad: the button is hidden when the details say
\* there is no menu.
OffersMenu(o) == details[o] # "noMenu"

\* prepare(for: showRestaurantDetails) and RestaurantDetailsVC.viewDidLoad:
\* the button follows the details' own hasMenu, not the loaded menu; without
\* details the storyboard's button stays visible.
RowSelected(i) ==
    LET source == IF filter THEN venuesWithMenus ELSE NearbyList(helpers, venues)
    IN  /\ Running /\ screen = "list"
        /\ i \in DOMAIN rows
        /\ IF source = Nil \/ i \notin DOMAIN source
           THEN Trap("row")
           ELSE /\ screen' = "details"
                /\ opened' = source[i]
                /\ viewMenuButton' = OffersMenu(source[i])
                /\ UNCHANGED trapped
        /\ UNCHANGED <<requests, list, taps>>

\* showMenu and MenuDetailsVC.viewDidLoad, which unwraps the list of menus.
MenuPressed ==
    /\ Running /\ screen = "details" /\ viewMenuButton
    /\ IF menu[opened] \in {"items", "empty"}
       THEN screen' = "menu" /\ UNCHANGED <<opened, viewMenuButton, trapped>>
       ELSE Trap("menu")
    /\ UNCHANGED <<requests, list, taps>>

Back ==
    /\ Running
    /\ \/ screen = "menu" /\ screen' = "details" /\ UNCHANGED <<opened, viewMenuButton>>
       \/ screen = "details" /\ screen' = "list" /\ opened' = Nil
            /\ viewMenuButton' = FALSE
    /\ UNCHANGED <<requests, list, trapped, taps>>

Next ==
    \/ LocationDelivered \/ TaskCompletes \/ ListPublished \/ TableReloaded
    \/ FilterPressed \/ MenuPressed \/ Back
    \/ \E i \in DOMAIN rows : RowDisplayed(i) \/ RowSelected(i)

Spec == Init /\ [][Next]_vars

\* URL tasks complete (or time out) and the main queue runs its blocks.
Fairness ==
    WF_vars(TaskCompletes) /\ WF_vars(ListPublished) /\ WF_vars(TableReloaded)

\* Where these are enabled, and how their steps are told from all others.
TasksRun == Running /\ block = Nil /\ tasks # {}
TaskIsOver == ~(tasks \subseteq tasks')
BlockWaits == Running /\ block # Nil
BlockIsRun == block # Nil /\ block' = Nil

FairSpec == Spec /\ Fairness

------------------------
(* Properties. *)

\* Neither showing a row nor opening one indexes past the list behind the table
\* or unwraps a list that is not there.
NoRowTrap == trapped # "row"

\* It takes a second location to make a row trap, and even then the rows listed
\* under the filter are safe.
OnlyMovingTrapsRows == trapped = "row" => helpers > 1 /\ ~filter

\* Opening the menu of a venue found under the filter never finds the menu
\* missing: the filter lists a venue only once its menu has been answered.
FilteredVenuesOpenTheirMenu == trapped = "menu" => ~filter

\* When no block waits, every row whose venue has its details shows that venue
\* and not the one its recycled cell showed before, as long as no further
\* location has replaced the list.  Details with an error status count from the
\* next .reload on, whoever's answer posts it: their own does not.
RowsShowTheirVenues ==
    LET source == IF filter THEN venuesWithMenus ELSE NearbyList(helpers, venues)
    IN  block = Nil /\ rows # <<>> /\ helpers = 1 =>
            \A i \in DOMAIN rows \cap DOMAIN source :
                details[source[i]] # "none" /\ source[i] \notin silent
                    => rows[i] = source[i]

\* Under the filter the table is the list made when the button was pressed,
\* whatever locations and late answers arrive since: a tap opens what it shows.
FilteredTableIsStable == filter => rows = venuesWithMenus

\* The table and the list behind it agree: only another location makes a row trap, the
\* filtered table keeps its rows and each of them opens a menu that is there.
TableAgreesWithItsList ==
    OnlyMovingTrapsRows /\ FilteredTableIsStable /\ FilteredVenuesOpenTheirMenu

Known(v) ==
    LET o == <<helpers, v>>
    IN  helpers > 0 /\ details[o] # "none" /\ o \notin silent

\* The details that arrive for a venue of the current list reach the table,
\* unless the filter is on or the app is gone; those with an error status once
\* any later answer has posted .reload.
Shown(v) == (\E i \in DOMAIN rows : rows[i] = <<helpers, v>>) \/ filter \/ ~Running
Unshown == \E v \in Venues : Known(v) /\ ~Shown(v)
DetailsAreShown == Unshown ~> ~Unshown
=============================================================================
