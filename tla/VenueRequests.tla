------------------------------ MODULE VenueRequests ------------------------------
(***************************************************************************)
(* The Foursquare requests behind a list of nearby venues:                 *)
(* GetNearbyVenuesHelper asks which venues are near, every venue found     *)
(* becomes a DetailFoodVenue that asks for its details, and a venue whose  *)
(* details say it has a menu asks for the menu.                            *)
(*                                                                         *)
(* All of them use URLSession.shared. Its completion handlers run one at a *)
(* time on a queue of its own; a handler assigns its result there and ends *)
(* by handing a block to the main queue and waiting for it                 *)
(* (DispatchQueue.main.sync), so at most one block is waiting.             *)
(***************************************************************************)
EXTENDS Naturals, Sequences

CONSTANTS
    Venues,      \* Foursquare's venue ids
    Answers,     \* the lists of venues a search may find
    MaxHelpers,  \* bound: helpers created, one per location delivered
    Refusals,    \* bound: what details with an error status say of a menu
    Nil

Helpers == 1 .. MaxHelpers

\* One DetailFoodVenue per helper and venue: an answer lists a venue once.
Objects == Helpers \X Venues

ASSUME HelpersAssumption == MaxHelpers \in Nat \ {0}
ASSUME AnswersAssumption ==
    \A a \in Answers :
        /\ a \in Seq(Venues)
        /\ \A i, j \in DOMAIN a : a[i] = a[j] => i = j
ASSUME RefusalsAssumption == Refusals \subseteq {"noMenu", "menu"}

VARIABLES
    helpers,  \* how many helpers there are; the last one is the screen's
    venues,   \* per helper: its venues array, Nil until the search is in
    tasks,    \* the URL tasks that have not completed
    block,    \* the block a completion handler waits for, or Nil
    details,  \* per object: none, or details that say menu or noMenu
    hasMenu,  \* per object: the flag set from the menu's answer
    menu,     \* per object: none, or the menu: items, empty, or bare (a
              \* menu answer without any list of menus)
    silent    \* history: the objects whose details came with an error
              \* status; no .reload has been posted since

requests == <<helpers, venues, tasks, block, details, hasMenu, menu, silent>>

Search(h)   == [kind |-> "search", of |-> h]
GetDetails(o) == [kind |-> "details", of |-> o]
GetMenu(o)  == [kind |-> "menu", of |-> o]

\* The two blocks: publish the list of venues; post .reload.
Publish(h, found) == [kind |-> "publish", of |-> h, found |-> found]
Reload == [kind |-> "reload"]

\* Nil is no list, no object and not the block that posts .reload.
ASSUME NilAssumption == Nil \notin Seq(Objects) /\ Nil \notin Objects /\ Nil # Reload

RequestsTypeOK ==
    /\ helpers \in 0 .. MaxHelpers
    /\ DOMAIN venues = Helpers
    /\ \A h \in Helpers : venues[h] \in Seq({h} \X Venues) \cup {Nil}
    /\ tasks \subseteq ({Search(h) : h \in Helpers}
                        \cup {GetDetails(o) : o \in Objects}
                        \cup {GetMenu(o) : o \in Objects})
    /\ \/ block \in {Nil, Reload}
       \/ /\ block = Publish(block.of, block.found)
          /\ block.of \in Helpers /\ block.found \in Seq({block.of} \X Venues)
    /\ details \in [Objects -> {"none", "noMenu", "menu"}]
    /\ hasMenu \in [Objects -> {"nil", "true", "false"}]
    /\ menu \in [Objects -> {"none", "items", "empty", "bare"}]
    /\ silent \subseteq Objects

RequestsInit ==
    /\ helpers = 0
    /\ venues = [h \in Helpers |-> Nil]
    /\ tasks = {}
    /\ block = Nil
    /\ details = [o \in Objects |-> "none"]
    /\ hasMenu = [o \in Objects |-> "nil"]
    /\ menu = [o \in Objects |-> "none"]
    /\ silent = {}

\* A location arrives: a new helper takes the place of the screen's.
NewHelper ==
    /\ helpers < MaxHelpers
    /\ helpers' = helpers + 1
    /\ tasks' = tasks \cup {Search(helpers + 1)}
    /\ UNCHANGED <<venues, block, details, hasMenu, menu, silent>>

\* A completion handler: the session's queue is free, the task is over.
Completes(t) ==
    /\ t \in tasks
    /\ block = Nil

\* No data, an answer that does not decode, or a search with an error status.
TaskFails(t) ==
    /\ Completes(t)
    /\ tasks' = tasks \ {t}
    /\ UNCHANGED <<helpers, venues, block, details, hasMenu, menu, silent>>

\* Creating a DetailFoodVenue starts its request.
SearchAnswered(h, answer) ==
    LET found == [i \in DOMAIN answer |-> <<h, answer[i]>>]
    IN  /\ Completes(Search(h))
        /\ tasks' = (tasks \ {Search(h)})
                        \cup {GetDetails(found[i]) : i \in DOMAIN found}
        /\ block' = Publish(h, found)
        /\ UNCHANGED <<helpers, venues, details, hasMenu, menu, silent>>

\* Mutant: the table is not told.
DetailsAnswered_Silent(o, says) ==
    /\ Completes(GetDetails(o))
    /\ details' = [details EXCEPT ![o] = says]
    /\ tasks' = (tasks \ {GetDetails(o)})
                    \cup (IF says = "menu" THEN {GetMenu(o)} ELSE {})
    /\ UNCHANGED <<helpers, venues, block, hasMenu, menu, silent>>

DetailsAnswered(o, says) ==
    /\ Completes(GetDetails(o))
    /\ details' = [details EXCEPT ![o] = says]
    /\ tasks' = (tasks \ {GetDetails(o)})
                    \cup (IF says = "menu" THEN {GetMenu(o)} ELSE {})
    /\ block' = Reload
    /\ UNCHANGED <<helpers, venues, hasMenu, menu, silent>>

\* Details with an error status: they are assigned before it is looked at, the
\* menu is not asked for, and .reload is not posted.
DetailsRefused(o, says) ==
    /\ Completes(GetDetails(o))
    /\ details' = [details EXCEPT ![o] = says]
    /\ tasks' = tasks \ {GetDetails(o)}
    /\ silent' = silent \cup {o}
    /\ UNCHANGED <<helpers, venues, block, hasMenu, menu>>

\* Mutant: the flag is taken over before the menu is there.
MenuAnswered_FlagOnly(o, is) ==
    /\ Completes(GetMenu(o))
    /\ hasMenu' = [hasMenu EXCEPT ![o] = IF is = "items" THEN "true" ELSE @]
    /\ tasks' = tasks \ {GetMenu(o)}
    /\ block' = Reload
    /\ UNCHANGED <<helpers, venues, details, menu, silent>>

\* Mutant: the number of menus is taken for the flag.
MenuAnswered_CountOnly(o, is) ==
    /\ Completes(GetMenu(o))
    /\ menu' = [menu EXCEPT ![o] = is]
    /\ hasMenu' = [hasMenu EXCEPT ![o] = is]
    /\ tasks' = tasks \ {GetMenu(o)}
    /\ block' = Reload
    /\ UNCHANGED <<helpers, venues, details, silent>>

\* hasMenu follows the number of menus, if the answer has one.
MenuAnswered(o, is) ==
    /\ Completes(GetMenu(o))
    /\ menu' = [menu EXCEPT ![o] = is]
    /\ hasMenu' = IF is = "bare" THEN hasMenu
                  ELSE [hasMenu EXCEPT ![o] = IF is = "items" THEN "true" ELSE "false"]
    /\ tasks' = tasks \ {GetMenu(o)}
    /\ block' = Reload
    /\ UNCHANGED <<helpers, venues, details, silent>>

\* The main queue runs the block; the handler's queue goes on.
PublishBlock ==
    /\ block # Nil
    /\ block.kind = "publish"
    /\ venues' = [venues EXCEPT ![block.of] = block.found]
    /\ block' = Nil
    /\ UNCHANGED <<helpers, tasks, details, hasMenu, menu, silent>>

ReloadBlock ==
    /\ block # Nil
    /\ block.kind = "reload"
    /\ block' = Nil
    /\ silent' = {}
    /\ UNCHANGED <<helpers, venues, tasks, details, hasMenu, menu>>

SearchCompletes == \E h \in Helpers, a \in Answers : SearchAnswered(h, a)
DetailsComplete ==
    \E o \in Objects :
        \/ \E says \in {"noMenu", "menu"} : DetailsAnswered(o, says)
        \/ \E says \in Refusals : DetailsRefused(o, says)
MenuCompletes ==
    \E o \in Objects, is \in {"items", "empty", "bare"} : MenuAnswered(o, is)
=============================================================================
