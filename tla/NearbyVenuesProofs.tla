--------------------------- MODULE NearbyVenuesProofs ---------------------------
(* Proofs about the screen that lists nearby venues: its types, that the table and the *)
(* list behind it agree as long as no second location has replaced the list, and that   *)
(* the filtered table keeps its rows and opens only menus that are there.  They hold    *)
(* for every set of venues, every number of locations and every number of taps.         *)
EXTENDS NearbyVenues, NaturalsBySets, TLAPS

------------------------
(* The inductive invariant. *)

\* Nothing has been answered for the helper h: its search has yet to be.
Unasked(h) ==
  /\ venues[h] = Nil
  /\ block \notin {Nil, Reload} => block.of # h
  /\ \A v \in Venues : details[<<h, v>>] = "none" /\ GetDetails(<<h, v>>) \notin tasks

\* Every request is sent once, and what is asked next follows from its answer.
EachIsAskedOnce ==
  /\ \A h \in Helpers : h > helpers => Search(h) \notin tasks
  /\ \A h \in Helpers : h > helpers \/ Search(h) \in tasks => Unasked(h)
  /\ block \notin {Nil, Reload} => venues[block.of] = Nil
  /\ \A o \in Objects :
        /\ GetDetails(o) \in tasks => details[o] = "none"
        /\ GetMenu(o) \in tasks => details[o] = "menu" /\ menu[o] = "none"
        /\ menu[o] # "none" => details[o] = "menu"
        /\ hasMenu[o] = "true" => menu[o] = "items"

\* What the filter lists has its menu, and so has the venue opened under the filter.
FilteredHaveMenus ==
  /\ \A i \in DOMAIN venuesWithMenus : menu[venuesWithMenus[i]] = "items"
  /\ filter /\ screen # "list" => opened \in Objects /\ menu[opened] = "items"

\* While there is one list, the table has no rows or one for each of its venues.
RowsFollowTheList ==
  /\ helpers = 0 => rows = << >> /\ venuesWithMenus = << >>
  /\ helpers = 1 /\ ~filter /\ rows # << >> =>
        venues[1] # Nil /\ DOMAIN rows = DOMAIN venues[1]

IInv ==
  /\ TypeOK /\ EachIsAskedOnce /\ FilteredHaveMenus /\ RowsFollowTheList
  /\ TableAgreesWithItsList /\ RowsShowTheirVenues

------------------------
(* Operators. *)

\* The filter keeps venues of the list, and only those known to have a menu.
LEMMA FilterKeepsVenuesWithMenus ==
  ASSUME NEW ven \in Seq(Objects)
  PROVE  /\ KnownToHaveMenu(ven) \in Seq(Objects)
         /\ \A i \in DOMAIN KnownToHaveMenu(ven) : hasMenu[KnownToHaveMenu(ven)[i]] = "true"
<1> DEFINE n == Len(ven)
           Good == {s \in Seq(Objects) : \A i \in DOMAIN s : hasMenu[s[i]] = "true"}
           body(i, s) == IF hasMenu[ven[i]] = "true" THEN Append(s, ven[i]) ELSE s
           step == [p \in (1..n) \X Good |-> body(p[1], p[2])]
           IsKept(f) == f = [i \in 0..n |-> IF i = 0 THEN << >>
                                             ELSE IF hasMenu[ven[i]] = "true"
                                                  THEN Append(f[i - 1], ven[i])
                                                  ELSE f[i - 1]]
           kept == CHOOSE f : IsKept(f)
<1>1. n \in Nat /\ << >> \in Good OBVIOUS
<1>2. ASSUME NEW i \in 1..n, NEW s \in Good PROVE body(i, s) \in Good
  <2>1. ven[i] \in Objects /\ s \in Seq(Objects) OBVIOUS
  <2>2. Append(s, ven[i]) \in Seq(Objects)
    BY <2>1
  <2>3. CASE hasMenu[ven[i]] = "true"
    <3>1. ASSUME NEW j \in DOMAIN Append(s, ven[i])
          PROVE  hasMenu[Append(s, ven[i])[j]] = "true"
      <4>1. j \in 1..Len(s) + 1 BY <2>1
      <4>2. CASE j = Len(s) + 1
        BY <2>1, <4>2, <2>3
      <4>3. CASE j \in 1..Len(s)
        <5>1. Append(s, ven[i])[j] = s[j] /\ j \in DOMAIN s
          BY <2>1, <4>3
        <5> QED BY <5>1
      <4> QED BY <4>1, <4>2, <4>3, <2>1
    <3> QED BY <3>1, <2>2, <2>3
  <2>4. CASE hasMenu[ven[i]] # "true"
    BY <2>4
  <2> QED BY <2>3, <2>4
<1>3. step \in [(1..n) \X Good -> Good]
  <2> HIDE DEF body, Good
  <2> QED BY <1>2
<1>4. PICK f \in [0 .. n -> Good] : f[0] = << >> /\ \A i \in 1..n : f[i] = step[<<i, f[i - 1]>>]
  <2> HIDE DEF Good, step, n
  <2>1. \E f : IsRecursion(f, n, Good, << >>, step)
    BY <1>1, <1>3, RecursionOnInterval
  <2> QED BY <2>1 DEF IsRecursion
<1>5. IsKept(f)
  <2>1. ASSUME NEW i \in 0..n
        PROVE  f[i] = IF i = 0 THEN << >> ELSE body(i, f[i - 1])
    <3>1. CASE i = 0
      BY <3>1, <1>4
    <3>2. CASE i # 0
      <4>1. i \in 1 .. n /\ i - 1 \in 0..n
        BY <3>2, <1>1
      <4>2. f[i] = step[<<i, f[i - 1]>>] /\ f[i - 1] \in Good
        <5> HIDE DEF Good, step, n
        <5> QED BY <4>1, <1>4
      <4>3. step[<<i, f[i - 1]>>] = body(i, f[i - 1])
        <5> HIDE DEF Good, body, n
        <5> QED BY <4>1, <4>2
      <4> QED BY <3>2, <4>2, <4>3
    <3> QED BY <3>1, <3>2
  <2>2. f = [i \in 0..n |-> f[i]]
    <3> HIDE DEF Good, n
    <3> QED BY <1>4
  <2>3. [i \in 0..n |-> f[i]] = [i \in 0..n |-> IF i = 0 THEN << >> ELSE body(i, f[i - 1])]
    <3> HIDE DEF Good, n, body
    <3> QED BY <2>1
  <2>4. f = [i \in 0..n |-> IF i = 0 THEN << >> ELSE body(i, f[i - 1])]
    <3> HIDE DEF Good, n, body
    <3> QED BY <2>2, <2>3, Zenon
  <2> QED BY <2>4, Zenon
<1>6. IsKept(kept)
  BY <1>5, Zenon
<1>7. kept[0] \in Good
  <2>1. 0 \in 0..n
    BY <1>1
  <2>2. kept[0] = << >>
    <3> HIDE DEF kept
    <3> QED BY <1>6, <2>1
  <2> QED BY <2>2, <1>1
<1>8. ASSUME NEW i \in 1..n, kept[i - 1] \in Good PROVE kept[i] \in Good
  <2>1. i \in 0 .. n /\ i # 0 OBVIOUS
  <2>2. kept[i] = body(i, kept[i - 1])
    <3> HIDE DEF kept
    <3> QED BY <1>6, <2>1
  <2> HIDE DEF Good, body, kept
  <2> QED BY <2>2, <1>8, <1>2
<1>9. \A i \in 0..n : kept[i] \in Good
  <2> HIDE DEF kept, Good, n
  <2> QED BY <1>1, <1>7, <1>8, StaysInSet
<1>10. kept[n] \in Good
  <2> HIDE DEF kept, Good
  <2> QED BY <1>9, <1>1
<1>11. KnownToHaveMenu(ven) = kept[n]
  BY DEF KnownToHaveMenu
<1> QED
  <2> HIDE DEF kept
  <2> QED BY <1>10, <1>11

\* Requests of different kinds are different, and so are those for different things.
LEMMA RequestsDiffer ==
  ASSUME NEW x, NEW y
  PROVE  /\ Search(x) = Search(y) => x = y
         /\ GetDetails(x) = GetDetails(y) => x = y
         /\ GetMenu(x) = GetMenu(y) => x = y
         /\ Search(x) # GetDetails(y) /\ Search(x) # GetMenu(y) /\ GetDetails(x) # GetMenu(y)
BY DEF Search, GetDetails, GetMenu

\* A block to publish is not one to reload, and has what it was made of.
LEMMA PublishedBlock ==
  ASSUME NEW h, NEW found
  PROVE  /\ Publish(h, found) # Reload
         /\ Publish(h, found).of = h /\ Publish(h, found).found = found
         /\ Publish(h, found).kind = "publish" /\ Reload.kind = "reload"
BY DEF Publish, Reload

------------------------
(* The requests. *)

RequestsInv == RequestsTypeOK /\ EachIsAskedOnce

LEMMA NewHelperKeepsRequests == RequestsInv /\ NewHelper => RequestsInv'
<1> SUFFICES ASSUME RequestsInv, NewHelper PROVE RequestsInv' OBVIOUS
<1> USE HelpersAssumption, NilAssumption
<1> DEFINE new == helpers + 1
<1>1. new \in Helpers /\ helpers \in Nat /\ new > helpers
  BY DEF RequestsInv, RequestsTypeOK, NewHelper, Helpers
<1>2. helpers' = new /\ tasks' = tasks \cup {Search(new)}
      /\ UNCHANGED <<venues, block, details, hasMenu, menu, silent>>
  BY DEF NewHelper
<1> HIDE DEF new
<1>3. \A o : (GetDetails(o) \in tasks' <=> GetDetails(o) \in tasks)
              /\ (GetMenu(o) \in tasks' <=> GetMenu(o) \in tasks)
  BY <1>2, RequestsDiffer
<1>4. \A h : Search(h) \in tasks' <=> Search(h) \in tasks \/ h = new
  BY <1>2, RequestsDiffer
<1>5. RequestsTypeOK'
  <2>1. helpers' \in 0..MaxHelpers
    BY <1>1, <1>2 DEF Helpers
  <2>2. tasks' \subseteq ({Search(h) : h \in Helpers} \cup {GetDetails(o) : o \in Objects}
                           \cup {GetMenu(o) : o \in Objects})
    BY <1>1, <1>2 DEF RequestsInv, RequestsTypeOK
  <2> QED BY <2>1, <2>2, <1>2 DEF RequestsInv, RequestsTypeOK
<1>6. \A h : Unasked(h) => Unasked(h)'
  BY <1>2, <1>3 DEF Unasked
<1>7. EachIsAskedOnce'
  <2>1. ASSUME NEW h \in Helpers, h > helpers' PROVE Search(h) \notin tasks' /\ h > helpers
    <3>1. h \in Nat /\ h > helpers /\ h # new
      BY <2>1, <1>1, <1>2 DEF Helpers, new
    <3> QED BY <3>1, <1>4 DEF RequestsInv, EachIsAskedOnce
  <2>2. ASSUME NEW h \in Helpers, h > helpers' \/ Search(h) \in tasks' PROVE Unasked(h)'
    <3>1. h > helpers \/ Search(h) \in tasks
      BY <2>1, <2>2, <1>1, <1>4
    <3> QED BY <3>1, <1>6 DEF RequestsInv, EachIsAskedOnce
  <2> QED BY <2>1, <2>2, <1>2, <1>3 DEF RequestsInv, EachIsAskedOnce
<1> QED BY <1>5, <1>7 DEF RequestsInv

LEMMA FailureKeepsRequests ==
  ASSUME NEW t
  PROVE  RequestsInv /\ TaskFails(t) => RequestsInv'
<1> SUFFICES ASSUME RequestsInv, TaskFails(t) PROVE RequestsInv' OBVIOUS
<1>1. tasks' \subseteq tasks /\ UNCHANGED <<helpers, venues, block, details, hasMenu, menu, silent>>
  BY DEF TaskFails
<1>2. RequestsTypeOK'
  BY <1>1 DEF RequestsInv, RequestsTypeOK
<1>3. \A h : Unasked(h) => Unasked(h)'
  BY <1>1 DEF Unasked
<1>4. EachIsAskedOnce'
  BY <1>1, <1>3 DEF RequestsInv, EachIsAskedOnce
<1> QED BY <1>2, <1>4 DEF RequestsInv

LEMMA SearchKeepsRequests ==
  ASSUME NEW h \in Helpers, NEW answer \in Answers
  PROVE  RequestsInv /\ SearchAnswered(h, answer) => RequestsInv'
<1> SUFFICES ASSUME RequestsInv, SearchAnswered(h, answer) PROVE RequestsInv'
  OBVIOUS
<1> USE HelpersAssumption, NilAssumption
<1> DEFINE found == [i \in DOMAIN answer |-> <<h, answer[i]>>]
           asked == {GetDetails(found[i]) : i \in DOMAIN found}
<1>1. /\ Search(h) \in tasks /\ block = Nil
      /\ tasks' = (tasks \ {Search(h)}) \cup asked
      /\ block' = Publish(h, found)
      /\ UNCHANGED <<helpers, venues, details, hasMenu, menu, silent>>
  BY DEF SearchAnswered, Completes
<1>2. found \in Seq({h} \X Venues)
  BY AnswersAssumption
<1>3. \A i \in DOMAIN found : \E v \in Venues : found[i] = <<h, v>>
  BY AnswersAssumption
<1> HIDE DEF found
<1>4. \A i \in DOMAIN found : found[i] \in Objects
  BY <1>3 DEF Objects
<1>5. \A x : /\ Search(x) \in tasks' <=> Search(x) \in tasks /\ x # h
             /\ GetMenu(x) \in tasks' <=> GetMenu(x) \in tasks
  BY <1>1, RequestsDiffer
<1>6. \A x : GetDetails(x) \in tasks' => GetDetails(x) \in tasks \/ \E v \in Venues : x = <<h, v>>
  BY <1>1, <1>3, RequestsDiffer
<1>7. RequestsTypeOK'
  <2>1. tasks' \subseteq ({Search(g) : g \in Helpers} \cup {GetDetails(o) : o \in Objects}
                           \cup {GetMenu(o) : o \in Objects})
    <3>1. asked \subseteq {GetDetails(o) : o \in Objects} BY <1>4
    <3> HIDE DEF asked
    <3> QED BY <3>1, <1>1 DEF RequestsInv, RequestsTypeOK
  <2>2. block' = Publish(block'.of, block'.found) /\ block'.of = h /\ block'.found = found
    BY <1>1, PublishedBlock
  <2> HIDE DEF asked
  <2> QED BY <2>1, <2>2, <1>1, <1>2 DEF RequestsInv, RequestsTypeOK
<1> HIDE DEF asked
<1>8. Unasked(h)
  BY <1>1 DEF RequestsInv, EachIsAskedOnce
<1>9. ASSUME NEW g \in Helpers, Unasked(g), g # h PROVE Unasked(g)'
  <2>1. venues'[g] = Nil /\ block'.of # g
    BY <1>1, <1>9, PublishedBlock DEF Unasked
  <2>2. \A v \in Venues : details'[<<g, v>>] = "none" /\ GetDetails(<<g, v>>) \notin tasks'
    BY <1>1, <1>6, <1>9 DEF Unasked
  <2> QED BY <2>1, <2>2 DEF Unasked
<1>10. EachIsAskedOnce'
  <2>1. \A g \in Helpers : g > helpers' => Search(g) \notin tasks'
    BY <1>1, <1>5 DEF RequestsInv, EachIsAskedOnce
  <2>2. ASSUME NEW g \in Helpers, g > helpers' \/ Search(g) \in tasks' PROVE Unasked(g)'
    <3>1. h <= helpers /\ g # h
      BY <1>1, <1>5, <2>2 DEF RequestsInv, RequestsTypeOK, EachIsAskedOnce, Helpers
    <3>2. g > helpers \/ Search(g) \in tasks
      BY <1>1, <1>5, <2>2
    <3> QED BY <3>1, <3>2, <1>9 DEF RequestsInv, EachIsAskedOnce
  <2>3. block' \notin {Nil, Reload} => venues'[block'.of] = Nil
    BY <1>1, <1>8, PublishedBlock DEF Unasked
  <2>4. ASSUME NEW o \in Objects, GetDetails(o) \in tasks' PROVE details'[o] = "none"
    <3>1. CASE GetDetails(o) \in tasks
      BY <3>1, <1>1 DEF RequestsInv, EachIsAskedOnce
    <3>2. CASE \E v \in Venues : o = <<h, v>>
      BY <3>2, <1>1, <1>8 DEF Unasked
    <3> QED BY <3>1, <3>2, <2>4, <1>6
  <2>5. ASSUME NEW o \in Objects
        PROVE  /\ GetMenu(o) \in tasks' => details'[o] = "menu" /\ menu'[o] = "none"
               /\ menu'[o] # "none" => details'[o] = "menu"
               /\ hasMenu'[o] = "true" => menu'[o] = "items"
    BY <1>1, <1>5 DEF RequestsInv, EachIsAskedOnce
  <2> QED BY <2>1, <2>2, <2>3, <2>4, <2>5 DEF EachIsAskedOnce
<1> QED BY <1>7, <1>10 DEF RequestsInv

\* Details come; with an error status the menu is not asked for and no block is left.
LEMMA DetailsKeepRequests ==
  ASSUME NEW o \in Objects, NEW says \in {"noMenu", "menu"}
  PROVE  RequestsInv /\ (DetailsAnswered(o, says) \/ DetailsRefused(o, says)) => RequestsInv'
<1> SUFFICES ASSUME RequestsInv, DetailsAnswered(o, says) \/ DetailsRefused(o, says)
             PROVE  RequestsInv'
  OBVIOUS
<1> USE HelpersAssumption, NilAssumption
<1> DEFINE asked == IF says = "menu" /\ block' = Reload THEN {GetMenu(o)} ELSE {}
<1>1. /\ GetDetails(o) \in tasks /\ block = Nil
      /\ details' = [details EXCEPT ![o] = says]
      /\ tasks' = (tasks \ {GetDetails(o)}) \cup asked
      /\ block' \in {Nil, Reload} /\ silent' \subseteq silent \cup {o}
      /\ UNCHANGED <<helpers, venues, hasMenu, menu>>
  BY DEF DetailsAnswered, DetailsRefused, Completes
<1>2. details \in [Objects -> {"none", "noMenu", "menu"}]
  BY DEF RequestsInv, RequestsTypeOK
<1>3. \A x \in Objects : details'[x] = IF x = o THEN says ELSE details[x]
  BY <1>1, <1>2
<1>4. \A x : /\ Search(x) \in tasks' <=> Search(x) \in tasks
             /\ GetDetails(x) \in tasks' <=> GetDetails(x) \in tasks /\ x # o
             /\ GetMenu(x) \in tasks' => GetMenu(x) \in tasks \/ (x = o /\ says = "menu")
  BY <1>1, RequestsDiffer
<1>5. details[o] = "none" /\ menu[o] = "none"
  BY <1>1 DEF RequestsInv, EachIsAskedOnce
<1>6. RequestsTypeOK'
  <2>1. tasks' \subseteq ({Search(g) : g \in Helpers} \cup {GetDetails(x) : x \in Objects}
                           \cup {GetMenu(x) : x \in Objects})
    <3>1. asked \subseteq {GetMenu(x) : x \in Objects} OBVIOUS
    <3> HIDE DEF asked
    <3> QED BY <3>1, <1>1 DEF RequestsInv, RequestsTypeOK
  <2> HIDE DEF asked
  <2>2. details' \in [Objects -> {"none", "noMenu", "menu"}]
    BY <1>1, <1>2
  <2> QED BY <2>1, <2>2, <1>1 DEF RequestsInv, RequestsTypeOK
<1> HIDE DEF asked
<1>7. ASSUME NEW g \in Helpers, Unasked(g) PROVE Unasked(g)'
  <2>1. venues'[g] = Nil /\ block' \in {Nil, Reload}
    BY <1>1, <1>7 DEF Unasked
  <2>2. ASSUME NEW v \in Venues
        PROVE  details'[<<g, v>>] = "none" /\ GetDetails(<<g, v>>) \notin tasks'
    <3>1. <<g, v>> \in Objects /\ <<g, v>> # o
      BY <1>1, <1>7 DEF Unasked, Objects
    <3> QED BY <3>1, <1>3, <1>4, <1>7 DEF Unasked
  <2> QED BY <2>1, <2>2 DEF Unasked
<1>8. EachIsAskedOnce'
  <2>1. \A g \in Helpers : g > helpers' => Search(g) \notin tasks'
    BY <1>1, <1>4 DEF RequestsInv, EachIsAskedOnce
  <2>2. ASSUME NEW g \in Helpers, g > helpers' \/ Search(g) \in tasks' PROVE Unasked(g)'
    BY <2>2, <1>1, <1>4, <1>7 DEF RequestsInv, EachIsAskedOnce
  <2>3. block' \notin {Nil, Reload} => venues'[block'.of] = Nil
    BY <1>1
  <2>4. ASSUME NEW x \in Objects
        PROVE  /\ GetDetails(x) \in tasks' => details'[x] = "none"
               /\ GetMenu(x) \in tasks' => details'[x] = "menu" /\ menu'[x] = "none"
               /\ menu'[x] # "none" => details'[x] = "menu"
               /\ hasMenu'[x] = "true" => menu'[x] = "items"
    <3>1. CASE x = o
      BY <3>1, <1>1, <1>3, <1>4, <1>5 DEF RequestsInv, EachIsAskedOnce
    <3>2. CASE x # o
      BY <3>2, <1>1, <1>3, <1>4 DEF RequestsInv, EachIsAskedOnce
    <3> QED BY <3>1, <3>2
  <2> QED BY <2>1, <2>2, <2>3, <2>4 DEF EachIsAskedOnce
<1> QED BY <1>6, <1>8 DEF RequestsInv

LEMMA MenuKeepsRequests ==
  ASSUME NEW o \in Objects, NEW is \in {"items", "empty", "bare"}
  PROVE  RequestsInv /\ MenuAnswered(o, is) => RequestsInv'
<1> SUFFICES ASSUME RequestsInv, MenuAnswered(o, is) PROVE RequestsInv' OBVIOUS
<1> USE HelpersAssumption, NilAssumption
<1>1. /\ GetMenu(o) \in tasks /\ block = Nil
      /\ menu' = [menu EXCEPT ![o] = is]
      /\ hasMenu' = IF is = "bare" THEN hasMenu
                    ELSE [hasMenu EXCEPT ![o] = IF is = "items" THEN "true" ELSE "false"]
      /\ tasks' = tasks \ {GetMenu(o)}
      /\ block' = Reload
      /\ UNCHANGED <<helpers, venues, details, silent>>
  BY DEF MenuAnswered, Completes
<1>2. /\ hasMenu \in [Objects -> {"nil", "true", "false"}]
      /\ menu \in [Objects -> {"none", "items", "empty", "bare"}]
  BY DEF RequestsInv, RequestsTypeOK
<1>3. details[o] = "menu" /\ menu[o] = "none" /\ hasMenu[o] # "true"
  BY <1>1 DEF RequestsInv, EachIsAskedOnce
<1>4. \A x \in Objects :
        /\ menu'[x] = IF x = o THEN is ELSE menu[x]
        /\ hasMenu'[x] = "true" => hasMenu[x] = "true" \/ (x = o /\ is = "items")
  BY <1>1, <1>2
<1>5. \A x : /\ Search(x) \in tasks' <=> Search(x) \in tasks
             /\ GetDetails(x) \in tasks' <=> GetDetails(x) \in tasks
             /\ GetMenu(x) \in tasks' <=> GetMenu(x) \in tasks /\ x # o
  BY <1>1, RequestsDiffer
<1>6. RequestsTypeOK'
  <2>1. /\ hasMenu' \in [Objects -> {"nil", "true", "false"}]
        /\ menu' \in [Objects -> {"none", "items", "empty", "bare"}]
    BY <1>1, <1>2
  <2> QED BY <2>1, <1>1 DEF RequestsInv, RequestsTypeOK
<1>7. \A g : Unasked(g) => Unasked(g)'
  BY <1>1, <1>5 DEF Unasked
<1>8. EachIsAskedOnce'
  <2>1. ASSUME NEW x \in Objects
        PROVE  /\ GetDetails(x) \in tasks' => details'[x] = "none"
               /\ GetMenu(x) \in tasks' => details'[x] = "menu" /\ menu'[x] = "none"
               /\ menu'[x] # "none" => details'[x] = "menu"
               /\ hasMenu'[x] = "true" => menu'[x] = "items"
    <3>1. CASE x = o
      BY <3>1, <1>1, <1>3, <1>4, <1>5 DEF RequestsInv, EachIsAskedOnce
    <3>2. CASE x # o
      BY <3>2, <1>1, <1>4, <1>5 DEF RequestsInv, EachIsAskedOnce
    <3> QED BY <3>1, <3>2
  <2>2. \A g \in Helpers : /\ g > helpers' => Search(g) \notin tasks'
                           /\ g > helpers' \/ Search(g) \in tasks' => Unasked(g)'
    BY <1>1, <1>5, <1>7 DEF RequestsInv, EachIsAskedOnce
  <2> QED BY <2>1, <2>2, <1>1 DEF EachIsAskedOnce
<1> QED BY <1>6, <1>8 DEF RequestsInv

\* The main queue's blocks: the list of one helper appears, or nothing changes but the block.
LEMMA BlockKeepsRequests == RequestsInv /\ (PublishBlock \/ ReloadBlock) => RequestsInv'
<1> USE HelpersAssumption, NilAssumption
<1>1. ASSUME RequestsInv, PublishBlock PROVE RequestsInv'
  <2>1. /\ block # Nil /\ block.kind = "publish" /\ block' = Nil
        /\ venues' = [venues EXCEPT ![block.of] = block.found]
        /\ UNCHANGED <<helpers, tasks, details, hasMenu, menu, silent>>
    BY <1>1 DEF PublishBlock
  <2>2. block \notin {Nil, Reload}
    BY <2>1, PublishedBlock
  <2>3. block.of \in Helpers /\ block.found \in Seq({block.of} \X Venues)
    BY <2>2, <1>1 DEF RequestsInv, RequestsTypeOK
  <2>4. RequestsTypeOK'
    BY <2>1, <2>3, <1>1 DEF RequestsInv, RequestsTypeOK
  <2>5. ASSUME NEW g \in Helpers, Unasked(g) PROVE Unasked(g)'
    <3>1. g # block.of BY <2>2, <2>5 DEF Unasked
    <3>2. venues'[g] = venues[g] BY <3>1, <2>1
    <3> QED BY <3>2, <2>1, <2>5 DEF Unasked
  <2>6. EachIsAskedOnce'
    BY <2>1, <2>5, <1>1 DEF RequestsInv, EachIsAskedOnce
  <2> QED BY <2>4, <2>6 DEF RequestsInv
<1>2. ASSUME RequestsInv, ReloadBlock PROVE RequestsInv'
  <2>1. block' = Nil /\ silent' = {} /\ UNCHANGED <<helpers, venues, tasks, details, hasMenu, menu>>
    BY <1>2 DEF ReloadBlock
  <2>2. RequestsTypeOK'
    BY <2>1, <1>2 DEF RequestsInv, RequestsTypeOK
  <2>3. \A g : Unasked(g) => Unasked(g)'
    BY <2>1 DEF Unasked
  <2>4. EachIsAskedOnce'
    BY <2>1, <2>3, <1>2 DEF RequestsInv, EachIsAskedOnce
  <2> QED BY <2>2, <2>4 DEF RequestsInv
<1> QED BY <1>1, <1>2

------------------------
(* The table. *)

\* The list behind the screen is one of venues, or there is none.
LEMMA CurrentList ==
  ASSUME RequestsInv
  PROVE  /\ NearbyList(helpers, venues) \in Seq(Objects) \cup {Nil}
         /\ helpers = 0 => NearbyList(helpers, venues) = Nil
         /\ helpers = 1 => NearbyList(helpers, venues) = venues[1]
<1>1. CASE helpers = 0
  BY <1>1 DEF NearbyList
<1>2. CASE helpers # 0
  <2>1. helpers \in Helpers
    <3>1. helpers \in 0..MaxHelpers BY DEF RequestsInv, RequestsTypeOK
    <3> QED BY <3>1, <1>2, HelpersAssumption DEF Helpers
  <2>2. venues[helpers] \in Seq({helpers} \X Venues) \cup {Nil}
    BY <2>1 DEF RequestsInv, RequestsTypeOK
  <2>3. {helpers} \X Venues \subseteq Objects
    BY <2>1 DEF Objects
  <2>4. ASSUME NEW s \in Seq({helpers} \X Venues) PROVE s \in Seq(Objects)
    BY <2>3
  <2> QED BY <1>2, <2>2, <2>4 DEF NearbyList
<1> QED BY <1>1, <1>2

\* A cell shows the venue if its details are there, and else what it showed or another did.
LEMMA CellsAreVenues ==
  ASSUME rows \in Seq(Objects \cup {Nil}), NEW o \in Objects \cup {Nil}
  PROVE  /\ CellsFor(o) \subseteq Objects \cup {Nil}
         /\ o # Nil /\ details[o] # "none" => CellsFor(o) = {o}
<1>1. \A i \in DOMAIN rows : rows[i] \in Objects \cup {Nil} OBVIOUS
<1> QED BY <1>1 DEF CellsFor

\* After reloadData there is one row for every venue of the source, and it shows that venue
\* if its details are there.
LEMMA ReloadedRows ==
  ASSUME rows \in Seq(Objects \cup {Nil}), NEW source \in Seq(Objects),
         rows' \in {r \in [DOMAIN source -> UNION {CellsFor(source[i]) : i \in DOMAIN source}] :
                      \A i \in DOMAIN source : r[i] \in CellsFor(source[i])}
  PROVE  /\ rows' \in Seq(Objects \cup {Nil})
         /\ DOMAIN rows' = DOMAIN source
         /\ \A i \in DOMAIN source : details[source[i]] # "none" => rows'[i] = source[i]
<1>1. \A i \in DOMAIN source : source[i] \in Objects /\ source[i] # Nil
  BY NilAssumption
<1>2. DOMAIN rows' = 1 .. Len(source) /\ DOMAIN source = 1 .. Len(source) /\ Len(source) \in Nat
  OBVIOUS
<1>3. ASSUME NEW i \in DOMAIN source
      PROVE  /\ rows'[i] \in Objects \cup {Nil}
             /\ details[source[i]] # "none" => rows'[i] = source[i]
  <2>1. rows'[i] \in CellsFor(source[i]) OBVIOUS
  <2>2. source[i] \in Objects \cup {Nil} /\ source[i] # Nil
    BY <1>1
  <2> QED BY <2>1, <2>2, CellsAreVenues
<1>4. rows' \in Seq(Objects \cup {Nil})
  <2>1. rows' = [i \in 1..Len(source) |-> rows'[i]]
    BY <1>2
  <2>2. rows' \in [1..Len(source) -> Objects \cup {Nil}]
    BY <2>1, <1>2, <1>3
  <2> QED BY <2>2, <1>2
<1> QED BY <1>2, <1>3, <1>4

\* reloadData brings the table in line with the list behind it, whatever it was before.
LEMMA ReloadAlignsTable ==
  ASSUME RequestsInv, rows \in Seq(Objects \cup {Nil}),
         filter' \in BOOLEAN, venuesWithMenus' \in Seq(Objects),
         \A i \in DOMAIN venuesWithMenus' : details[venuesWithMenus'[i]] # "none",
         helpers = 0 => venuesWithMenus' = << >>,
         UNCHANGED <<helpers, venues, details>>,
         ReloadTable(filter', venuesWithMenus', venues)
  PROVE  /\ rows' \in Seq(Objects \cup {Nil})
         /\ FilteredTableIsStable' /\ RowsFollowTheList' /\ RowsShowTheirVenues'
<1> DEFINE current == NearbyList(helpers, venues)
           source == IF filter' THEN venuesWithMenus'
                     ELSE IF current = Nil THEN << >> ELSE current
<1>1. current \in Seq(Objects) \cup {Nil} /\ (helpers = 0 => current = Nil)
      /\ (helpers = 1 => current = venues[1])
  BY CurrentList
<1>2. source \in Seq(Objects)
  <2>1. << >> \in Seq(Objects) OBVIOUS
  <2> HIDE DEF current
  <2> QED BY <1>1, <2>1
<1>3. rows' \in {r \in [DOMAIN source -> UNION {CellsFor(source[i]) : i \in DOMAIN source}] :
                   \A i \in DOMAIN source : r[i] \in CellsFor(source[i])}
  BY DEF ReloadTable
<1> HIDE DEF source, current
<1>4. /\ rows' \in Seq(Objects \cup {Nil})
      /\ DOMAIN rows' = DOMAIN source
      /\ \A i \in DOMAIN source : details[source[i]] # "none" => rows'[i] = source[i]
  BY <1>2, <1>3, ReloadedRows
<1>5. ASSUME filter' PROVE rows' = venuesWithMenus'
  <2>1. source = venuesWithMenus'
    BY <1>5 DEF source
  <2>2. \A i \in DOMAIN source : rows'[i] = source[i]
    BY <2>1, <1>4
  <2>3. Len(rows') = Len(source)
    BY <1>2, <1>4
  <2>4. rows' = source
    BY <1>2, <1>4, <2>2, <2>3
  <2> QED BY <2>1, <2>4
<1>6. ASSUME DOMAIN source = {} PROVE rows' = << >>
  <2>1. Len(source) = 0 /\ rows' \in Seq(Objects \cup {Nil}) /\ DOMAIN rows' = 1..Len(rows')
        /\ Len(rows') \in Nat
    BY <1>2, <1>4, <1>6
  <2>2. Len(rows') = 0
    BY <2>1, <1>4, <1>6
  <2> QED BY <2>1, <2>2
<1>7. helpers = 0 => rows' = << >>
  <2>1. helpers = 0 => source = << >>
    BY <1>1 DEF source
  <2> QED BY <2>1, <1>6
<1>8. ASSUME ~filter', helpers = 1, rows' # << >>
      PROVE  venues[1] # Nil /\ source = venues[1]
  <2>1. source = IF venues[1] = Nil THEN << >> ELSE venues[1]
    BY <1>8, <1>1 DEF source
  <2> QED BY <2>1, <1>6, <1>8
<1>9. RowsFollowTheList'
  BY <1>4, <1>7, <1>8 DEF RowsFollowTheList
<1>10. RowsShowTheirVenues'
  <2> DEFINE behind == IF filter' THEN venuesWithMenus' ELSE NearbyList(helpers', venues')
  <2>1. ASSUME rows' # << >>, helpers' = 1 PROVE behind = source
    <3>1. CASE filter'
      BY <3>1 DEF source
    <3>2. CASE ~filter'
      BY <3>2, <2>1, <1>8 DEF NearbyList
    <3> QED BY <3>1, <3>2
  <2> HIDE DEF behind
  <2>2. ASSUME rows' # << >>, helpers' = 1, NEW i \in DOMAIN rows' \cap DOMAIN behind,
               details'[behind[i]] # "none"
        PROVE  rows'[i] = behind[i]
    BY <2>1, <2>2, <1>4
  <2> USE DEF behind
  <2> QED BY <2>2 DEF RowsShowTheirVenues
<1> QED BY <1>4, <1>5, <1>9, <1>10 DEF FilteredTableIsStable

------------------------
(* The steps. *)

LEMMA InitEstablishesIInv == Init => IInv
<1> SUFFICES ASSUME Init PROVE IInv OBVIOUS
<1> USE HelpersAssumption, NilAssumption, TapsAssumption
<1>1. /\ helpers = 0 /\ venues = [h \in Helpers |-> Nil] /\ tasks = {} /\ block = Nil
      /\ details = [o \in Objects |-> "none"] /\ hasMenu = [o \in Objects |-> "nil"]
      /\ menu = [o \in Objects |-> "none"] /\ silent = {}
  BY DEF Init, RequestsInit
<1>2. /\ filter = FALSE /\ venuesWithMenus = << >> /\ rows = << >> /\ screen = "list"
      /\ opened = Nil /\ viewMenuButton = FALSE /\ trapped = "no" /\ taps = 0
  BY DEF Init
<1>3. RequestsTypeOK
  BY <1>1 DEF RequestsTypeOK
<1>4. TypeOK
  <2>1. venuesWithMenus \in Seq(Objects) /\ rows \in Seq(Objects \cup {Nil})
    BY <1>2
  <2>2. taps \in 0..MaxTaps
    BY <1>2
  <2> QED BY <2>1, <2>2, <1>2, <1>3 DEF TypeOK
<1>5. EachIsAskedOnce
  BY <1>1 DEF EachIsAskedOnce, Unasked, Objects
<1>6. FilteredHaveMenus /\ RowsFollowTheList
  BY <1>1, <1>2 DEF FilteredHaveMenus, RowsFollowTheList
<1>7. TableAgreesWithItsList
  BY <1>2 DEF TableAgreesWithItsList, OnlyMovingTrapsRows, FilteredTableIsStable,
              FilteredVenuesOpenTheirMenu
<1>8. RowsShowTheirVenues
  BY <1>2 DEF RowsShowTheirVenues
<1> QED BY <1>4, <1>5, <1>6, <1>7, <1>8 DEF IInv

\* A step of the requests alone: the table and the screens stay as they are.
RequestsAlone == UNCHANGED <<list, navigation, taps>>

LEMMA RequestsAloneKeepTypes == TypeOK /\ RequestsAlone /\ RequestsTypeOK' => TypeOK'
BY DEF TypeOK, RequestsAlone, list, navigation

LEMMA RequestsAloneKeepAgreement ==
  TypeOK /\ TableAgreesWithItsList /\ RequestsAlone /\ helpers' >= helpers /\ helpers' \in Nat
  => TableAgreesWithItsList'
<1> SUFFICES ASSUME TypeOK, TableAgreesWithItsList, RequestsAlone, helpers' >= helpers,
                    helpers' \in Nat
             PROVE  TableAgreesWithItsList'
  OBVIOUS
<1>1. helpers \in Nat /\ helpers' \in Nat
  BY DEF TypeOK, RequestsTypeOK
<1>2. helpers > 1 => helpers' > 1
  BY <1>1
<1> QED
  BY <1>2 DEF TableAgreesWithItsList, OnlyMovingTrapsRows, FilteredTableIsStable,
              FilteredVenuesOpenTheirMenu, RequestsAlone, list, navigation

LEMMA RequestsAloneKeepMenus ==
  ASSUME TypeOK, FilteredHaveMenus, RequestsAlone,
         \A o \in Objects : menu[o] = "items" => menu'[o] = "items"
  PROVE  FilteredHaveMenus'
<1>1. \A i \in DOMAIN venuesWithMenus : venuesWithMenus[i] \in Objects
  BY DEF TypeOK
<1> QED BY <1>1 DEF FilteredHaveMenus, RequestsAlone, list, navigation

LEMMA LocationKeepsIInv == IInv /\ LocationDelivered => IInv'
<1> SUFFICES ASSUME IInv, LocationDelivered PROVE IInv' OBVIOUS
<1>1. NewHelper /\ RequestsAlone
  BY DEF LocationDelivered, RequestsAlone
<1>2. TypeOK /\ RequestsInv
  BY DEF IInv, TypeOK, RequestsInv
<1>3. RequestsInv'
  BY <1>1, <1>2, NewHelperKeepsRequests
<1>4. TypeOK'
  BY <1>1, <1>2, <1>3, RequestsAloneKeepTypes DEF RequestsInv
<1>5. helpers' = helpers + 1 /\ helpers \in Nat
      /\ UNCHANGED <<venues, block, details, hasMenu, menu, rows, filter, venuesWithMenus>>
  BY <1>1, <1>2 DEF NewHelper, TypeOK, RequestsTypeOK, RequestsAlone, list
<1>6. FilteredHaveMenus'
  BY <1>1, <1>2, <1>5, RequestsAloneKeepMenus DEF IInv
<1>7. TableAgreesWithItsList'
  <2>1. helpers' \in Nat /\ helpers' >= helpers
    BY <1>5
  <2> QED BY <1>1, <1>2, <2>1, RequestsAloneKeepAgreement DEF IInv
<1>8. helpers' # 0 /\ (helpers' = 1 => rows' = << >>)
  <2>1. helpers' # 0 /\ (helpers' = 1 => helpers = 0)
    BY <1>5
  <2> QED BY <2>1, <1>5 DEF IInv, RowsFollowTheList
<1>9. RowsFollowTheList' /\ RowsShowTheirVenues'
  BY <1>8 DEF RowsFollowTheList, RowsShowTheirVenues
<1> QED BY <1>3, <1>4, <1>6, <1>7, <1>9 DEF IInv, RequestsInv

\* What a row has to show: details that did not come silently.
Ready(o) == details[o] # "none" /\ o \notin silent

\* A completion handler leaves a block to run, unless it did nothing that a row has to show.
LEMMA TaskKeepsIInv == IInv /\ TaskCompletes => IInv'
<1> SUFFICES ASSUME IInv, TaskCompletes PROVE IInv' OBVIOUS
<1>1. RequestsAlone
      /\ (SearchCompletes \/ DetailsComplete \/ MenuCompletes \/ \E t \in tasks : TaskFails(t))
  BY DEF TaskCompletes, RequestsAlone
<1>2. TypeOK /\ RequestsInv
  BY DEF IInv, TypeOK, RequestsInv
<1>3. /\ RequestsInv'
      /\ UNCHANGED <<helpers, venues>> /\ block = Nil
      /\ \A o \in Objects : menu[o] = "items" => menu'[o] = "items"
      /\ block' = Nil => \A o \in Objects : Ready(o)' => Ready(o)
  <2>1. CASE SearchCompletes
    <3>1. PICK h \in Helpers, a \in Answers : SearchAnswered(h, a)
      BY <2>1 DEF SearchCompletes
    <3>2. RequestsInv' BY <3>1, <1>2, SearchKeepsRequests
    <3> QED BY <3>1, <3>2, PublishedBlock DEF SearchAnswered, Completes, Ready
  <2>2. CASE DetailsComplete
    <3>1. PICK o \in Objects, says \in {"noMenu", "menu"} :
            DetailsAnswered(o, says) \/ DetailsRefused(o, says)
      BY <2>2, RefusalsAssumption DEF DetailsComplete
    <3>2. RequestsInv' BY <3>1, <1>2, DetailsKeepRequests
    <3>3. CASE DetailsAnswered(o, says)
      BY <3>2, <3>3, NilAssumption DEF DetailsAnswered, Completes
    <3>4. CASE DetailsRefused(o, says)
      <4>1. \A x \in Objects : x # o => details'[x] = details[x]
        BY <3>4, <1>2 DEF DetailsRefused, RequestsInv, RequestsTypeOK
      <4>2. silent' = silent \cup {o} BY <3>4 DEF DetailsRefused
      <4>3. \A x \in Objects : Ready(x)' => Ready(x) BY <4>1, <4>2 DEF Ready
      <4> QED BY <3>2, <3>4, <4>3 DEF DetailsRefused, Completes
    <3> QED BY <3>1, <3>3, <3>4
  <2>3. CASE MenuCompletes
    <3>1. PICK o \in Objects, is \in {"items", "empty", "bare"} : MenuAnswered(o, is)
      BY <2>3 DEF MenuCompletes
    <3>2. RequestsInv' BY <3>1, <1>2, MenuKeepsRequests
    <3>3. menu[o] = "none" /\ menu' = [menu EXCEPT ![o] = is]
      BY <3>1, <1>2 DEF MenuAnswered, Completes, RequestsInv, EachIsAskedOnce
    <3>4. \A x \in Objects : menu[x] = "items" => menu'[x] = "items"
      BY <3>3, <1>2 DEF RequestsInv, RequestsTypeOK
    <3> QED BY <3>1, <3>2, <3>4 DEF MenuAnswered, Completes, Ready
  <2>4. CASE \E t \in tasks : TaskFails(t)
    <3>1. PICK t \in tasks : TaskFails(t) BY <2>4
    <3>2. RequestsInv' BY <3>1, <1>2, FailureKeepsRequests
    <3> QED BY <3>1, <3>2 DEF TaskFails, Completes, Ready
  <2> QED BY <1>1, <2>1, <2>2, <2>3, <2>4
<1>4. TypeOK'
  BY <1>1, <1>2, <1>3, RequestsAloneKeepTypes DEF RequestsInv
<1>5. FilteredHaveMenus'
  BY <1>1, <1>2, <1>3, RequestsAloneKeepMenus DEF IInv
<1>6. TableAgreesWithItsList'
  <2>1. helpers' \in Nat /\ helpers' >= helpers
    BY <1>2, <1>3 DEF TypeOK, RequestsTypeOK
  <2> QED BY <1>1, <1>2, <2>1, RequestsAloneKeepAgreement DEF IInv
<1>7. UNCHANGED <<filter, venuesWithMenus, rows>>
  BY <1>1 DEF RequestsAlone, list
<1>8. RowsFollowTheList'
  BY <1>3, <1>7 DEF IInv, RowsFollowTheList
<1>9. RowsShowTheirVenues'
  <2> DEFINE source == IF filter THEN venuesWithMenus ELSE NearbyList(helpers, venues)
  <2>1. helpers = 1 /\ rows # << >> => source \in Seq(Objects)
    BY <1>2, CurrentList DEF TypeOK, IInv, RowsFollowTheList
  <2>2. RowsShowTheirVenues' =
          (block' = Nil /\ rows # << >> /\ helpers = 1 =>
             \A i \in DOMAIN rows \cap DOMAIN source :
               details'[source[i]] # "none" /\ source[i] \notin silent' => rows[i] = source[i])
    BY <1>3, <1>7 DEF RowsShowTheirVenues, NearbyList
  <2>3. rows # << >> /\ helpers = 1 =>
          \A i \in DOMAIN rows \cap DOMAIN source : Ready(source[i]) => rows[i] = source[i]
    BY <1>3 DEF IInv, RowsShowTheirVenues, Ready
  <2> HIDE DEF source
  <2>4. ASSUME block' = Nil, rows # << >>, helpers = 1, NEW i \in DOMAIN rows \cap DOMAIN source,
               details'[source[i]] # "none", source[i] \notin silent'
        PROVE  rows[i] = source[i]
    <3>1. source[i] \in Objects BY <2>1, <2>4
    <3>2. Ready(source[i]) BY <1>3, <2>4, <3>1 DEF Ready
    <3> QED BY <2>3, <2>4, <3>2
  <2> QED BY <2>2, <2>4
<1> QED BY <1>3, <1>4, <1>5, <1>6, <1>8, <1>9 DEF IInv, RequestsInv

LEMMA PublishingKeepsIInv == IInv /\ ListPublished => IInv'
<1> SUFFICES ASSUME IInv, ListPublished PROVE IInv' OBVIOUS
<1>1. PublishBlock /\ RequestsAlone
  BY DEF ListPublished, RequestsAlone
<1>2. TypeOK /\ RequestsInv
  BY DEF IInv, TypeOK, RequestsInv
<1>3. RequestsInv'
  BY <1>1, <1>2, BlockKeepsRequests
<1>4. /\ block # Nil /\ block.kind = "publish"
      /\ venues' = [venues EXCEPT ![block.of] = block.found]
      /\ UNCHANGED <<helpers, details, menu, silent, rows, filter, venuesWithMenus>>
  BY <1>1 DEF PublishBlock, RequestsAlone, list
<1>5. TypeOK'
  BY <1>1, <1>2, <1>3, RequestsAloneKeepTypes DEF RequestsInv
<1>6. FilteredHaveMenus'
  BY <1>1, <1>2, <1>4, RequestsAloneKeepMenus DEF IInv
<1>7. TableAgreesWithItsList'
  <2>1. helpers' \in Nat /\ helpers' >= helpers
    BY <1>2, <1>4 DEF TypeOK, RequestsTypeOK
  <2> QED BY <1>1, <1>2, <2>1, RequestsAloneKeepAgreement DEF IInv
<1>8. ASSUME helpers = 1, ~filter PROVE rows = << >>
  <2>1. block \notin {Nil, Reload}
    BY <1>4, PublishedBlock
  <2>2. block.of \in Helpers /\ venues[block.of] = Nil
    BY <2>1, <1>2 DEF RequestsInv, RequestsTypeOK, EachIsAskedOnce
  <2>3. ~(block.of > helpers)
    BY <2>1, <2>2, <1>2 DEF RequestsInv, EachIsAskedOnce, Unasked
  <2>4. block.of = 1
    BY <2>2, <2>3, <1>8 DEF Helpers
  <2> QED BY <2>2, <2>4, <1>8 DEF IInv, RowsFollowTheList
<1>9. RowsFollowTheList'
  BY <1>4, <1>8 DEF IInv, RowsFollowTheList
<1>10. RowsShowTheirVenues'
  <2>1. CASE filter
    <3>1. rows' = venuesWithMenus'
      BY <2>1, <1>4 DEF IInv, TableAgreesWithItsList, FilteredTableIsStable
    <3> QED BY <3>1, <2>1, <1>4 DEF RowsShowTheirVenues
  <2>2. CASE ~filter
    <3>1. helpers' = 1 => rows' = << >> BY <2>2, <1>4, <1>8
    <3> QED BY <3>1 DEF RowsShowTheirVenues
  <2> QED BY <2>1, <2>2
<1> QED BY <1>3, <1>5, <1>6, <1>7, <1>9, <1>10 DEF IInv, RequestsInv

\* The venues the filter lists have their details, which is what makes their rows right.
LEMMA MenusHaveDetails ==
  ASSUME RequestsInv, NEW s \in Seq(Objects), \A i \in DOMAIN s : menu[s[i]] = "items"
  PROVE  \A i \in DOMAIN s : details[s[i]] # "none"
<1>1. \A i \in DOMAIN s : s[i] \in Objects OBVIOUS
<1> QED BY <1>1 DEF RequestsInv, EachIsAskedOnce

LEMMA ReloadingKeepsIInv == IInv /\ TableReloaded => IInv'
<1> SUFFICES ASSUME IInv, TableReloaded PROVE IInv' OBVIOUS
<1>1. /\ ReloadBlock /\ trapped = "no"
      /\ ReloadTable(filter, venuesWithMenus, venues)
      /\ UNCHANGED <<filter, venuesWithMenus, screen, opened, viewMenuButton, trapped, taps>>
  BY DEF TableReloaded, Running, navigation
<1>2. TypeOK /\ RequestsInv
  BY DEF IInv, TypeOK, RequestsInv
<1>3. RequestsInv'
  BY <1>1, <1>2, BlockKeepsRequests
<1>4. UNCHANGED <<helpers, venues, details, menu>>
  BY <1>1 DEF ReloadBlock
<1>5. /\ rows' \in Seq(Objects \cup {Nil})
      /\ FilteredTableIsStable' /\ RowsFollowTheList' /\ RowsShowTheirVenues'
  <2>1. /\ rows \in Seq(Objects \cup {Nil}) /\ filter' \in BOOLEAN
        /\ venuesWithMenus' \in Seq(Objects) /\ venuesWithMenus' = venuesWithMenus
    BY <1>1, <1>2 DEF TypeOK
  <2>2. \A i \in DOMAIN venuesWithMenus' : details[venuesWithMenus'[i]] # "none"
    BY <1>2, <2>1, MenusHaveDetails DEF IInv, FilteredHaveMenus
  <2>3. helpers = 0 => venuesWithMenus' = << >>
    BY <2>1 DEF IInv, RowsFollowTheList
  <2>4. ReloadTable(filter', venuesWithMenus', venues)
    BY <1>1
  <2> QED BY <1>2, <1>4, <2>1, <2>2, <2>3, <2>4, ReloadAlignsTable
<1>6. TypeOK'
  BY <1>1, <1>2, <1>3, <1>5 DEF TypeOK, RequestsInv
<1>7. FilteredHaveMenus'
  BY <1>1, <1>4 DEF IInv, FilteredHaveMenus
<1>8. TableAgreesWithItsList'
  BY <1>1, <1>5 DEF TableAgreesWithItsList, OnlyMovingTrapsRows, FilteredVenuesOpenTheirMenu
<1> QED BY <1>3, <1>5, <1>6, <1>7, <1>8 DEF IInv, RequestsInv

LEMMA FilterKeepsIInv == IInv /\ FilterPressed => IInv'
<1> SUFFICES ASSUME IInv, FilterPressed PROVE IInv' OBVIOUS
<1>1. /\ trapped = "no" /\ screen = "list" /\ taps < MaxTaps
      /\ taps' = taps + 1 /\ filter' = ~filter
      /\ venuesWithMenus' = IF filter' THEN WithMenu ELSE venuesWithMenus
      /\ ReloadTable(filter', venuesWithMenus', venues)
      /\ UNCHANGED <<requests, navigation>>
  BY DEF FilterPressed, Running
<1>2. TypeOK /\ RequestsInv
  BY DEF IInv, TypeOK, RequestsInv
<1>3. /\ UNCHANGED <<helpers, venues, tasks, block, details, hasMenu, menu, silent>>
      /\ UNCHANGED <<screen, opened, viewMenuButton, trapped>>
  BY <1>1 DEF requests, navigation
<1>4. RequestsInv'
  BY <1>2, <1>3 DEF RequestsInv, RequestsTypeOK, EachIsAskedOnce, Unasked
<1>5. /\ WithMenu \in Seq(Objects)
      /\ \A i \in DOMAIN WithMenu : hasMenu[WithMenu[i]] = "true"
      /\ helpers = 0 => WithMenu = << >>
  <2>1. CASE NearbyList(helpers, venues) = Nil
    <3>1. WithMenu = << >> BY <2>1 DEF WithMenu
    <3> QED BY <3>1
  <2>2. CASE NearbyList(helpers, venues) # Nil
    <3>1. NearbyList(helpers, venues) \in Seq(Objects) /\ helpers # 0
      BY <2>2, <1>2, CurrentList
    <3>2. WithMenu = KnownToHaveMenu(NearbyList(helpers, venues))
      BY <2>2 DEF WithMenu
    <3> QED BY <3>1, <3>2, FilterKeepsVenuesWithMenus
  <2> QED BY <2>1, <2>2
<1>6. \A i \in DOMAIN WithMenu : menu[WithMenu[i]] = "items"
  <2>1. \A i \in DOMAIN WithMenu : WithMenu[i] \in Objects
    BY <1>5
  <2> QED BY <2>1, <1>2, <1>5 DEF RequestsInv, EachIsAskedOnce
<1>7. /\ venuesWithMenus' \in Seq(Objects)
      /\ \A i \in DOMAIN venuesWithMenus' : menu[venuesWithMenus'[i]] = "items"
      /\ helpers = 0 => venuesWithMenus' = << >>
  <2>1. CASE filter'
    BY <2>1, <1>1, <1>5, <1>6
  <2>2. CASE ~filter'
    <3>1. venuesWithMenus' = venuesWithMenus BY <2>2, <1>1
    <3> QED BY <3>1 DEF IInv, TypeOK, FilteredHaveMenus, RowsFollowTheList
  <2> QED BY <2>1, <2>2
<1>8. /\ rows' \in Seq(Objects \cup {Nil})
      /\ FilteredTableIsStable' /\ RowsFollowTheList' /\ RowsShowTheirVenues'
  <2>1. rows \in Seq(Objects \cup {Nil}) /\ filter' \in BOOLEAN
    BY <1>1, <1>2 DEF TypeOK
  <2>2. \A i \in DOMAIN venuesWithMenus' : details[venuesWithMenus'[i]] # "none"
    BY <1>2, <1>7, MenusHaveDetails
  <2>3. UNCHANGED <<helpers, venues, details>>
    BY <1>3
  <2>4. ReloadTable(filter', venuesWithMenus', venues)
    BY <1>1
  <2> QED BY <1>2, <1>7, <2>1, <2>2, <2>3, <2>4, ReloadAlignsTable
<1>9. TypeOK'
  <2>1. taps' \in 0..MaxTaps
    BY <1>1, <1>2, TapsAssumption DEF TypeOK
  <2>2. filter' \in BOOLEAN
    BY <1>1
  <2> QED BY <2>1, <2>2, <1>2, <1>3, <1>4, <1>7, <1>8 DEF TypeOK, RequestsInv
<1>10. FilteredHaveMenus'
  BY <1>1, <1>3, <1>7 DEF FilteredHaveMenus
<1>11. TableAgreesWithItsList'
  BY <1>1, <1>3, <1>8 DEF TableAgreesWithItsList, OnlyMovingTrapsRows, FilteredVenuesOpenTheirMenu
<1> QED BY <1>4, <1>8, <1>9, <1>10, <1>11 DEF IInv, RequestsInv

------------------------
(* Rows, screens. *)

Source == IF filter THEN venuesWithMenus ELSE NearbyList(helpers, venues)

\* A row is beyond its source, or without one, only when a second location has come.
LEMMA RowsHaveASource ==
  ASSUME IInv, NEW i \in DOMAIN rows, helpers <= 1 \/ filter
  PROVE  Source # Nil /\ i \in DOMAIN Source
<1>1. TypeOK
  BY DEF IInv
<1>2. rows # << >> OBVIOUS
<1>3. CASE filter
  <2>1. Source = venuesWithMenus /\ rows = venuesWithMenus
    BY <1>3 DEF IInv, Source, TableAgreesWithItsList, FilteredTableIsStable
  <2>2. venuesWithMenus # Nil
    BY <1>1, NilAssumption DEF TypeOK
  <2> QED BY <2>1, <2>2
<1>4. CASE ~filter
  <2>1. helpers = 0 \/ helpers = 1
    <3>1. helpers \in 0 .. MaxHelpers /\ MaxHelpers \in Nat
      BY <1>1, HelpersAssumption DEF TypeOK, RequestsTypeOK
    <3> QED BY <3>1, <1>4
  <2>2. helpers = 1 /\ venues[1] # Nil /\ DOMAIN rows = DOMAIN venues[1]
    BY <1>2, <1>4, <2>1 DEF IInv, RowsFollowTheList
  <2> QED BY <2>2, <1>4 DEF Source, NearbyList
<1> QED BY <1>3, <1>4

LEMMA SourceIsVenues ==
  ASSUME IInv
  PROVE  Source \in Seq(Objects) \cup {Nil}
<1>1. venuesWithMenus \in Seq(Objects) /\ RequestsInv
  BY DEF IInv, TypeOK, RequestsInv
<1> QED BY <1>1, CurrentList DEF Source

LEMMA RowTrapKeepsIInv ==
  ASSUME IInv, NEW i \in DOMAIN rows, trapped = "no",
         Source = Nil \/ i \notin DOMAIN Source,
         Trap("row"), UNCHANGED <<requests, list, taps>>
  PROVE  IInv'
<1>1. helpers > 1 /\ ~filter
  <2>1. helpers \in Nat
    <3>1. helpers \in 0..MaxHelpers BY DEF IInv, TypeOK, RequestsTypeOK
    <3> QED BY <3>1, HelpersAssumption
  <2>2. ~(helpers <= 1 \/ filter)
    BY RowsHaveASource
  <2> QED BY <2>1, <2>2
<1>2. /\ trapped' = "row" /\ UNCHANGED <<screen, opened, viewMenuButton, taps>>
      /\ UNCHANGED <<helpers, venues, tasks, block, details, hasMenu, menu, silent>>
      /\ UNCHANGED <<filter, venuesWithMenus, rows>>
  BY DEF Trap, requests, list
<1>3. TypeOK'
  BY <1>2 DEF IInv, TypeOK, RequestsTypeOK
<1>4. EachIsAskedOnce'
  BY <1>2 DEF IInv, EachIsAskedOnce, Unasked
<1>5. FilteredHaveMenus' /\ RowsFollowTheList'
  BY <1>2 DEF IInv, FilteredHaveMenus, RowsFollowTheList
<1>6. TableAgreesWithItsList'
  BY <1>1, <1>2 DEF IInv, TableAgreesWithItsList, OnlyMovingTrapsRows, FilteredTableIsStable,
                    FilteredVenuesOpenTheirMenu
<1>7. RowsShowTheirVenues'
  BY <1>2 DEF IInv, RowsShowTheirVenues, NearbyList
<1> QED BY <1>3, <1>4, <1>5, <1>6, <1>7 DEF IInv

LEMMA DisplayKeepsIInv ==
  ASSUME IInv, NEW i \in DOMAIN rows, RowDisplayed(i)
  PROVE  IInv'
<1>1. /\ trapped = "no" /\ screen = "list"
      /\ IF Source # Nil /\ i \notin DOMAIN Source
         THEN Trap("row") /\ UNCHANGED rows
         ELSE /\ \E c \in CellsFor(IF Source = Nil THEN Nil ELSE Source[i]) :
                   rows' = [rows EXCEPT ![i] = c]
              /\ UNCHANGED navigation
      /\ UNCHANGED <<requests, filter, venuesWithMenus, taps>>
  BY DEF RowDisplayed, Running, Source
<1>2. CASE Source # Nil /\ i \notin DOMAIN Source
  <2>1. Trap("row") /\ UNCHANGED <<requests, list, taps>>
    BY <1>1, <1>2 DEF list
  <2> QED BY <1>1, <1>2, <2>1, RowTrapKeepsIInv
<1>3. CASE Source = Nil \/ i \in DOMAIN Source
  <2> DEFINE o == IF Source = Nil THEN Nil ELSE Source[i]
  <2>1. PICK c \in CellsFor(o) : rows' = [rows EXCEPT ![i] = c]
    BY <1>1, <1>3
  <2>2. /\ UNCHANGED <<helpers, venues, tasks, block, details, hasMenu, menu, silent>>
        /\ UNCHANGED <<filter, venuesWithMenus, taps>>
        /\ UNCHANGED <<screen, opened, viewMenuButton, trapped>>
    BY <1>1, <1>3 DEF requests, navigation
  <2>3. rows \in Seq(Objects \cup {Nil}) /\ venuesWithMenus \in Seq(Objects) /\ RequestsInv
    BY DEF IInv, TypeOK, RequestsInv
  <2>4. o \in Objects \cup {Nil}
    BY <1>3, SourceIsVenues
  <2> HIDE DEF o
  <2>5. c \in Objects \cup {Nil} /\ (o # Nil /\ details[o] # "none" => c = o)
    BY <2>1, <2>3, <2>4, CellsAreVenues
  <2>6. /\ rows' \in Seq(Objects \cup {Nil}) /\ DOMAIN rows' = DOMAIN rows
        /\ \A j \in DOMAIN rows : rows'[j] = IF j = i THEN c ELSE rows[j]
    BY <2>1, <2>3, <2>5
  <2>7. ASSUME Source # Nil, Source \in Seq(Objects), details[Source[i]] # "none" PROVE c = Source[i]
    <3>1. Source[i] \in Objects BY <2>7, <1>3
    <3>2. o = Source[i] /\ o # Nil
      BY <2>7, <3>1, NilAssumption DEF o
    <3> QED BY <3>2, <2>5, <2>7
  <2>8. TypeOK'
    BY <2>2, <2>6 DEF IInv, TypeOK, RequestsTypeOK
  <2>9. EachIsAskedOnce'
    BY <2>2 DEF IInv, EachIsAskedOnce, Unasked
  <2>10. FilteredHaveMenus'
    BY <2>2 DEF IInv, FilteredHaveMenus
  <2>11. rows # << >> /\ rows' # << >>
    BY <2>3, <2>6
  <2>12. RowsFollowTheList'
    BY <2>2, <2>6, <2>11 DEF IInv, RowsFollowTheList
  <2>13. ASSUME filter PROVE rows' = rows
    <3>1. Source = venuesWithMenus /\ rows = venuesWithMenus /\ Source # Nil
      BY <2>13, RowsHaveASource DEF Source, IInv, TableAgreesWithItsList, FilteredTableIsStable
    <3>2. \A j \in DOMAIN venuesWithMenus : details[venuesWithMenus[j]] # "none"
      BY <2>3, MenusHaveDetails DEF IInv, FilteredHaveMenus
    <3>3. c = rows[i] BY <3>1, <3>2, <2>3, <2>7
    <3> QED BY <3>3, <2>1, <2>3
  <2>14. TableAgreesWithItsList'
    BY <2>2, <2>13 DEF IInv, TableAgreesWithItsList, OnlyMovingTrapsRows, FilteredTableIsStable,
                       FilteredVenuesOpenTheirMenu
  <2>15. RowsShowTheirVenues'
    <3> DEFINE behind == IF filter' THEN venuesWithMenus' ELSE NearbyList(helpers', venues')
    <3>1. behind = Source BY <2>2 DEF Source, NearbyList
    <3> HIDE DEF behind
    <3>2. ASSUME block' = Nil, helpers' = 1, NEW j \in DOMAIN rows' \cap DOMAIN behind,
                 details'[behind[j]] # "none", behind[j] \notin silent'
          PROVE  rows'[j] = behind[j]
      <4>1. j \in DOMAIN rows \cap DOMAIN Source /\ details[Source[j]] # "none"
            /\ Source[j] \notin silent
            /\ block = Nil /\ helpers = 1
        BY <3>1, <3>2, <2>2, <2>6
      <4>2. CASE j = i
        <5>1. Source # Nil /\ Source \in Seq(Objects)
          BY <4>1, RowsHaveASource, SourceIsVenues
        <5> QED BY <5>1, <4>1, <4>2, <3>1, <2>6, <2>7
      <4>3. CASE j # i
        <5>1. rows[j] = Source[j]
          BY <4>1, <2>11 DEF IInv, RowsShowTheirVenues, Source
        <5> QED BY <5>1, <4>1, <4>3, <3>1, <2>6
      <4> QED BY <4>2, <4>3
    <3> USE DEF behind
    <3> QED BY <3>2 DEF RowsShowTheirVenues
  <2> QED BY <2>8, <2>9, <2>10, <2>12, <2>14, <2>15 DEF IInv
<1> QED BY <1>2, <1>3

LEMMA SelectionKeepsIInv ==
  ASSUME IInv, NEW i \in DOMAIN rows, RowSelected(i)
  PROVE  IInv'
<1>1. /\ trapped = "no" /\ screen = "list"
      /\ IF Source = Nil \/ i \notin DOMAIN Source
         THEN Trap("row")
         ELSE /\ screen' = "details" /\ opened' = Source[i]
              /\ viewMenuButton' = OffersMenu(Source[i])
              /\ UNCHANGED trapped
      /\ UNCHANGED <<requests, list, taps>>
  BY DEF RowSelected, Running, Source
<1>2. CASE Source = Nil \/ i \notin DOMAIN Source
  BY <1>1, <1>2, RowTrapKeepsIInv
<1>3. CASE ~(Source = Nil \/ i \notin DOMAIN Source)
  <2>1. /\ screen' = "details" /\ opened' = Source[i] /\ viewMenuButton' \in BOOLEAN
        /\ UNCHANGED <<trapped, taps>>
        /\ UNCHANGED <<helpers, venues, tasks, block, details, hasMenu, menu, silent>>
        /\ UNCHANGED <<filter, venuesWithMenus, rows>>
    BY <1>1, <1>3 DEF requests, list, OffersMenu
  <2>2. Source[i] \in Objects
    BY <1>3, SourceIsVenues
  <2>3. TypeOK'
    BY <2>1, <2>2 DEF IInv, TypeOK, RequestsTypeOK
  <2>4. EachIsAskedOnce'
    BY <2>1 DEF IInv, EachIsAskedOnce, Unasked
  <2>5. filter => menu[Source[i]] = "items"
    BY <1>3 DEF Source, IInv, FilteredHaveMenus
  <2>6. FilteredHaveMenus'
    BY <2>1, <2>2, <2>5 DEF IInv, FilteredHaveMenus
  <2>7. RowsFollowTheList' /\ TableAgreesWithItsList'
    BY <2>1 DEF IInv, RowsFollowTheList, TableAgreesWithItsList, OnlyMovingTrapsRows,
                FilteredTableIsStable, FilteredVenuesOpenTheirMenu
  <2>8. RowsShowTheirVenues'
    BY <2>1 DEF IInv, RowsShowTheirVenues, NearbyList
  <2> QED BY <2>3, <2>4, <2>6, <2>7, <2>8 DEF IInv
<1> QED BY <1>2, <1>3

\* The two screens behind the list: what is opened there and left again.
LEMMA NavigationKeepsIInv == IInv /\ (MenuPressed \/ Back) => IInv'
<1> SUFFICES ASSUME IInv, MenuPressed \/ Back PROVE IInv' OBVIOUS
<1>1. /\ UNCHANGED <<helpers, venues, tasks, block, details, hasMenu, menu, silent>>
      /\ UNCHANGED <<filter, venuesWithMenus, rows, taps>>
      /\ trapped = "no" /\ (trapped' = "no" \/ (trapped' = "menu" /\ ~filter))
      /\ screen' \in {"list", "details", "menu"}
      /\ viewMenuButton' \in BOOLEAN
      /\ opened' \in Objects \cup {Nil}
      /\ screen' # "list" => screen # "list" /\ opened' = opened
  <2>1. CASE MenuPressed
    <3>1. /\ trapped = "no" /\ screen = "details"
          /\ IF menu[opened] \in {"items", "empty"}
             THEN screen' = "menu" /\ UNCHANGED <<opened, viewMenuButton, trapped>>
             ELSE Trap("menu")
          /\ UNCHANGED <<helpers, venues, tasks, block, details, hasMenu, menu, silent>>
          /\ UNCHANGED <<filter, venuesWithMenus, rows, taps>>
      BY <2>1 DEF MenuPressed, Running, requests, list
    <3>2. opened \in Objects \cup {Nil} /\ viewMenuButton \in BOOLEAN
      BY DEF IInv, TypeOK
    <3>3. filter => menu[opened] = "items" BY <3>1 DEF IInv, FilteredHaveMenus
    <3> QED BY <3>1, <3>2, <3>3 DEF Trap
  <2>2. CASE Back
    <3>1. opened \in Objects \cup {Nil} /\ viewMenuButton \in BOOLEAN
      BY DEF IInv, TypeOK
    <3> QED BY <2>2, <3>1 DEF Back, Running, requests, list
  <2> QED BY <2>1, <2>2
<1>2. TypeOK'
  BY <1>1 DEF IInv, TypeOK, RequestsTypeOK
<1>3. EachIsAskedOnce'
  BY <1>1 DEF IInv, EachIsAskedOnce, Unasked
<1>4. FilteredHaveMenus' /\ RowsFollowTheList'
  BY <1>1 DEF IInv, FilteredHaveMenus, RowsFollowTheList
<1>5. TableAgreesWithItsList'
  BY <1>1 DEF IInv, TableAgreesWithItsList, OnlyMovingTrapsRows, FilteredTableIsStable,
              FilteredVenuesOpenTheirMenu
<1>6. RowsShowTheirVenues'
  BY <1>1 DEF IInv, RowsShowTheirVenues, NearbyList
<1> QED BY <1>2, <1>3, <1>4, <1>5, <1>6 DEF IInv

LEMMA StepKeepsIInv == IInv /\ [Next]_vars => IInv'
<1> SUFFICES ASSUME IInv, [Next]_vars PROVE IInv' OBVIOUS
<1>1. CASE LocationDelivered \/ TaskCompletes \/ ListPublished \/ TableReloaded
  BY <1>1, LocationKeepsIInv, TaskKeepsIInv, PublishingKeepsIInv, ReloadingKeepsIInv
<1>2. CASE FilterPressed \/ MenuPressed \/ Back
  BY <1>2, FilterKeepsIInv, NavigationKeepsIInv
<1>3. CASE \E i \in DOMAIN rows : RowDisplayed(i) \/ RowSelected(i)
  BY <1>3, DisplayKeepsIInv, SelectionKeepsIInv
<1>4. CASE UNCHANGED vars
  <2>1. /\ UNCHANGED <<helpers, venues, tasks, block, details, hasMenu, menu, silent>>
        /\ UNCHANGED <<filter, venuesWithMenus, rows, taps>>
        /\ UNCHANGED <<screen, opened, viewMenuButton, trapped>>
    BY <1>4 DEF vars, requests, list, navigation
  <2>2. TypeOK'
    BY <2>1 DEF IInv, TypeOK, RequestsTypeOK
  <2>3. EachIsAskedOnce' /\ FilteredHaveMenus' /\ RowsFollowTheList'
    BY <2>1 DEF IInv, EachIsAskedOnce, Unasked, FilteredHaveMenus, RowsFollowTheList
  <2>4. TableAgreesWithItsList' /\ RowsShowTheirVenues'
    BY <2>1 DEF IInv, TableAgreesWithItsList, OnlyMovingTrapsRows, FilteredTableIsStable,
                FilteredVenuesOpenTheirMenu, RowsShowTheirVenues, NearbyList
  <2> QED BY <2>2, <2>3, <2>4 DEF IInv
<1> QED BY <1>1, <1>2, <1>3, <1>4 DEF Next

LEMMA IInvHolds == Spec => []IInv
<1>1. Init => IInv
  BY InitEstablishesIInv
<1>2. IInv /\ [Next]_vars => IInv'
  BY StepKeepsIInv
<1> QED BY <1>1, <1>2, PTL DEF Spec

------------------------
(* The theorems. *)

\* The variables keep their types through every order of locations, answers, failures and
\* taps: lists hold venues of their own helper, and a block waiting for the main queue is
\* one that a completion handler has put there.
THEOREM VenuesAreTyped == Spec => []TypeOK
<1>1. IInv => TypeOK
  BY DEF IInv
<1> QED BY <1>1, IInvHolds, PTL

\* Without a second location no row is shown or opened beyond its list; under the filter
\* never, since the table then is the list made when the button was pressed and every venue
\* of it has the menu that the menu screen unwraps.
THEOREM TableAgrees == Spec => []TableAgreesWithItsList
<1>1. IInv => TableAgreesWithItsList
  BY DEF IInv
<1> QED BY <1>1, IInvHolds, PTL

\* With one location and no block waiting, a row whose venue has its details shows that
\* venue: no answer that arrived between two reloads is left out of the table, although a
\* cell without details keeps what it showed for another venue. Details that come with an
\* error status reload nothing: of them it holds from the next .reload on.
THEOREM RowsAreTheirVenues == Spec => []RowsShowTheirVenues
<1>1. IInv => RowsShowTheirVenues
  BY DEF IInv
<1> QED BY <1>1, IInvHolds, PTL
=============================================================================
