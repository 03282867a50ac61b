-------------------------------- MODULE Lists --------------------------------
(***************************************************************************)
(* The province table's controls (components/TableView.svelte over         *)
(* lib/table.js, put on the server's rows by islands/table.js) and the     *)
(* area finder (components/AreaFind.svelte over lib/find.js).              *)
(*                                                                         *)
(* Names are numbers in the reader's alphabet; which of them a typed text  *)
(* occurs in is a constant.  A cursor counts from 0, as the code's does;   *)
(* -1 is no cursor.                                                        *)
(***************************************************************************)
EXTENDS Integers, Sequences, FiniteSets, Sorting

CONSTANTS Rows,        \* the server's rows: [name, value or NoReading, sensors]
          NoReading,
          Texts,       \* what is typed
          FoundIn,     \* a text, typed or a whole name -> the names it occurs in
          TextOf,      \* a name -> its text
          AreaLists,   \* the lists of areas the map can have loaded
          MaxListActs  \* bound: gestures in a behaviour

ASSUME ListsAssumption ==
  /\ NoReading \notin Int /\ MaxListActs \in Nat
  \* The table's rows are the provinces, and no two of them share a name.
  /\ Rows \in Seq([name : DOMAIN TextOf, value : Int \cup {NoReading}, sensors : Nat])
  /\ Len(Rows) >= 2 /\ \A i, j \in DOMAIN Rows : Rows[i].name = Rows[j].name => i = j
  /\ DOMAIN TextOf \subseteq Nat
  /\ \A as \in AreaLists : IsFiniteSet(as) /\ as \subseteq DOMAIN TextOf
  /\ Texts \cup {""} \cup {TextOf[n] : n \in DOMAIN TextOf} \subseteq DOMAIN FoundIn

VARIABLES
  widget,                       \* "table" or "finder"
  listActs,
  ask,                          \* mode, query, key, dir, perPage, page, hidden
  listOpen, active, focused,    \* of the table's or the finder's combobox
  threw,                        \* Enter raised a TypeError
  areas, picked                 \* the finder's list and what it last opened

comboVars == <<listOpen, active, focused>>
listVars == <<widget, listActs, ask, comboVars, threw, areas, picked>>

DataKeys == {"value", "sensors"}
ALL == 0   \* perPage 'all'

Silent(r) == r.value = NoReading
\* compare < 0: the silent sink in every order.
\* Mutant of Before: an ascending sort lets the silent rows lead.
Before_Sign(a, b, key, dir) ==
  LET lt(x, y) == IF dir = "asc" THEN x < y ELSE y < x
  IN IF Silent(a) # Silent(b) THEN (IF dir = "asc" THEN Silent(a) ELSE Silent(b))
     ELSE IF key = "value" /\ Silent(a) THEN FALSE ELSE lt(a[key], b[key])
Before(a, b, key, dir) ==
  LET lt(x, y) == IF dir = "asc" THEN x < y ELSE y < x
  IN IF Silent(a) # Silent(b) THEN Silent(b)
     ELSE IF key = "value" /\ Silent(a) THEN FALSE ELSE lt(a[key], b[key])

\* sortRows: stable, so equal rows keep the server's ranking.
sortRows(rows, key, dir) ==
  LET places == DOMAIN rows
      leads(i, j) == \/ Before(rows[i], rows[j], key, dir)
                     \/ i < j /\ ~Before(rows[j], rows[i], key, dir)
      order == Sorted(places, {p \in places \X places : leads(p[1], p[2])})
  IN [k \in places |-> rows[order[k]]]

filterRows(rows, mode) ==
  Only(rows, {i \in DOMAIN rows : mode = "all" \/ (mode = "nodata") = Silent(rows[i])})
queryRows(rows, q) == Only(rows, {i \in DOMAIN rows : q = "" \/ rows[i].name \in FoundIn[q]})

\* Divisors of the row count, none under five.
perPageOptions(total) == {n \in 5 .. total - 1 : total % n = 0}
pageCount(total, perPage) ==
  IF perPage = ALL \/ total = 0 THEN 1 ELSE (total + perPage - 1) \div perPage
\* A page outside the range is clamped.
pageSlice(rows, perPage, page) ==
  LET pages == pageCount(Len(rows), perPage)
      current == IF page > pages THEN pages ELSE page
  IN [page |-> current, pages |-> pages,
      rows |-> IF perPage = ALL THEN rows
               ELSE SubSeq(rows, (current - 1) * perPage + 1,
                           IF current * perPage > Len(rows) THEN Len(rows) ELSE current * perPage)]
\* Filter, then search, then sort, then page.
Kept(a) == queryRows(filterRows(Rows, a.mode), a.query)
View(a) == pageSlice(sortRows(Kept(a), a.key, a.dir), a.perPage, a.page)

firstDir(key) == IF key = "name" THEN "asc" ELSE "desc"
\* matchAreas over names: sorted by the reader's language.
matchAreas(names, q) ==
  Ascending(IF q = "" THEN names ELSE names \cap FoundIn[q])
\* The suggestions come from the rows the filter has left.
NamesOf(rows) == {rows[i].name : i \in DOMAIN rows}
suggestions == IF widget = "table" THEN matchAreas(NamesOf(filterRows(Rows, ask.mode)), ask.query)
               ELSE matchAreas(areas, ask.query)

ListAct == listActs < MaxListActs /\ listActs' = listActs + 1 /\ UNCHANGED widget

-----------------------------------------------------------------------------
(* The table.                                                              *)

OnTable(next) ==
  /\ widget = "table" /\ ListAct /\ ask' = next /\ UNCHANGED <<threw, areas, picked>>
\* A control other than the field takes the focus, and the list closes behind it;
\* the cursor's index is left as it was.
Elsewhere == focused' = FALSE /\ listOpen' = FALSE /\ UNCHANGED active

SortBy(k) ==
  /\ k \notin ask.hidden /\ Elsewhere
  /\ OnTable([ask EXCEPT !.key = k, !.page = 1,
                !.dir = IF k # ask.key THEN firstDir(k) ELSE IF ask.dir = "asc" THEN "desc" ELSE "asc"])
SetMode(m) == m # ask.mode /\ Elsewhere /\ OnTable([ask EXCEPT !.mode = m, !.page = 1])
SetPerPage(n) == Elsewhere /\ OnTable([ask EXCEPT !.perPage = n, !.page = 1])
\* The next page is counted from the page shown, which may be a clamped one.
Go(where) ==
  LET v == View(ask)
      to == CASE where = "first" -> 1
              [] where = "prev" -> IF v.page > 1 THEN v.page - 1 ELSE 1
              [] where = "next" -> IF v.page < v.pages THEN v.page + 1 ELSE v.pages
              [] where = "last" -> v.pages
  IN v.pages > 1 /\ to # v.page /\ Elsewhere /\ OnTable([ask EXCEPT !.page = to])

\* Mutant of nextHidden: the last data column can go.
nextHidden_Any(hidden, key) == IF key \in hidden THEN hidden \ {key} ELSE hidden \cup {key}
nextHidden(hidden, key) ==
  IF key \in hidden THEN hidden \ {key}
  ELSE IF Cardinality(DataKeys \ hidden) <= 1 THEN hidden ELSE hidden \cup {key}
\* Hiding the sorted column falls back to the names.
ToggleColumn(k) ==
  LET h == nextHidden(ask.hidden, k)
      lost == ask.key \in h
  IN /\ h # ask.hidden /\ Elsewhere
     /\ OnTable([ask EXCEPT !.hidden = h, !.key = IF lost THEN "name" ELSE @,
                            !.dir = IF lost THEN firstDir("name") ELSE @])

-----------------------------------------------------------------------------
(* The two comboboxes.  Both ask.query; they differ in what a cursor does. *)

Focus == /\ ~focused /\ ListAct /\ focused' = TRUE /\ listOpen' = TRUE
         /\ active' = IF widget = "finder" THEN -1 ELSE active
         /\ UNCHANGED <<ask, threw, areas, picked>>
Blur == /\ focused /\ focused' = FALSE /\ listOpen' = FALSE
        /\ active' = IF widget = "finder" THEN -1 ELSE active
        /\ UNCHANGED <<widget, listActs, ask, threw, areas, picked>>
TypeText(q) ==
  /\ focused /\ q # ask.query /\ ListAct
  /\ ask' = [ask EXCEPT !.query = q, !.page = 1]
  /\ active' = -1 /\ listOpen' = TRUE
  /\ UNCHANGED <<focused, threw, areas, picked>>
\* Wraps; an untouched cursor enters at the end it comes from.
MoveCursor(step) ==
  LET n == Len(suggestions)
  IN /\ focused /\ n > 0 /\ ListAct /\ listOpen' = TRUE
     /\ active' = IF active < 0 THEN (IF step > 0 THEN 0 ELSE n - 1) ELSE (active + step + n) % n
     /\ UNCHANGED <<focused, ask, threw, areas, picked>>
\* Home and End, which only the finder knows.
JumpCursor(at) ==
  /\ widget = "finder" /\ focused /\ listOpen /\ ListAct
  /\ active' = IF at = "home" THEN 0 ELSE Len(suggestions) - 1
  /\ UNCHANGED <<focused, listOpen, ask, threw, areas, picked>>

\* Confirming a name of the table's list narrows the table to it.
Narrow(n) ==
  /\ ask' = [ask EXCEPT !.query = TextOf[n], !.page = 1] /\ active' = -1 /\ listOpen' = FALSE
  /\ UNCHANGED <<focused, threw, areas, picked>>
\* Picking an area of the finder opens it.
pick(n, from) ==
  /\ ask' = [ask EXCEPT !.query = TextOf[n]] /\ active' = -1 /\ listOpen' = FALSE
  /\ picked' = [name |-> n, typed |-> ask.query, cursor |-> active # -1 \/ from = "mouse", among |-> suggestions]
  /\ UNCHANGED <<focused, threw, areas>>

\* The table's Enter reads the suggestion at its cursor, whether or not one is there.
EnterInTable ==
  /\ widget = "table" /\ focused /\ active >= 0 /\ ListAct
  /\ IF active < Len(suggestions) THEN Narrow(suggestions[active + 1])
     ELSE threw' = TRUE /\ UNCHANGED <<ask, comboVars, areas, picked>>

\* exactMatch: the one whole name, else the one area left standing.
\* Mutant of exactMatch: the first area left standing.
exactMatch_First(matches, q) == IF q = "" \/ matches = <<>> THEN {} ELSE {matches[1]}
exactMatch(matches, q) ==
  LET there == {matches[i] : i \in DOMAIN matches}
  IN IF q = "" THEN {}
     ELSE IF \E n \in there : TextOf[n] = q THEN {n \in there : TextOf[n] = q}
     ELSE IF Len(matches) = 1 THEN there ELSE {}
EnterInFinder ==
  LET target == IF active < 0 THEN exactMatch(suggestions, ask.query)
                ELSE IF active < Len(suggestions) THEN {suggestions[active + 1]} ELSE {}
  IN /\ widget = "finder" /\ focused /\ ListAct
     /\ \E n \in target : pick(n, "keys")
\* A press on an option.
PressOption(n) ==
  /\ focused /\ listOpen /\ ListAct /\ n \in {suggestions[i] : i \in DOMAIN suggestions}
  /\ IF widget = "table" THEN Narrow(n) ELSE pick(n, "mouse")

\* Two stages: the list goes first, the text second.
EscapeList ==
  /\ focused /\ ListAct /\ (listOpen \/ ask.query # "")
  /\ ask' = IF listOpen THEN ask ELSE [ask EXCEPT !.query = "", !.page = IF widget = "table" THEN 1 ELSE @]
  /\ active' = IF listOpen \/ widget = "table" THEN -1 ELSE active
  /\ listOpen' = FALSE
  /\ UNCHANGED <<focused, threw, areas, picked>>

\* The map's list lands, or is replaced, under the finder.
AreasLand(as) ==
  /\ widget = "finder" /\ as # areas /\ ListAct /\ areas' = as
  /\ UNCHANGED <<ask, comboVars, threw, picked>>

-----------------------------------------------------------------------------
ListsInit ==
  /\ widget \in {"table", "finder"} /\ listActs = 0
  /\ ask = [mode |-> "all", query |-> "", key |-> "value", dir |-> "desc", perPage |-> ALL,
            page |-> 1, hidden |-> {}]
  /\ listOpen = FALSE /\ active = -1 /\ focused = FALSE /\ threw = FALSE
  /\ areas = {} /\ picked = [name |-> 0, typed |-> "", cursor |-> FALSE, among |-> <<>>]

ListsNext ==
  \/ \E k \in DataKeys \cup {"name"} : SortBy(k)
  \/ \E m \in {"all", "withdata", "nodata"} : SetMode(m)
  \/ \E n \in {ALL} \cup perPageOptions(Len(Rows)) : SetPerPage(n)
  \/ \E w \in {"first", "prev", "next", "last"} : Go(w)
  \/ \E k \in DataKeys : ToggleColumn(k)
  \/ Focus \/ Blur \/ EnterInTable \/ EnterInFinder \/ EscapeList
  \/ \E q \in Texts : TypeText(q)
  \/ \E s \in {1, -1} : MoveCursor(s)
  \/ \E j \in {"home", "end"} : JumpCursor(j)
  \/ \E n \in DOMAIN TextOf : PressOption(n)
  \/ \E as \in AreaLists : AreasLand(as)

ListsSpec == ListsInit /\ [][ListsNext]_listVars

-----------------------------------------------------------------------------
\* The shape of the module's state.
ListsTypeOK ==
  /\ ask.mode \in {"all", "withdata", "nodata"} /\ ask.query \in DOMAIN FoundIn /\ ask.page \in Nat
  /\ ask.hidden \subseteq DataKeys /\ active \in Int
  /\ {listOpen, focused, threw} \subseteq BOOLEAN /\ areas \in AreaLists \cup {{}}

\* Through any order of filters, searches, sorts and pages the reader sees each kept
\* row on exactly one page, readings before silences, never an empty page while a row
\* is kept, and, unfiltered, no page shorter than another.
PagesShowEveryRow ==
  LET sorted == sortRows(Kept(ask), ask.key, ask.dir)
      pages == pageCount(Len(sorted), ask.perPage)
      At(p) == pageSlice(sorted, ask.perPage, p).rows
  IN /\ \A i, j \in DOMAIN sorted : i < j /\ Silent(sorted[i]) => Silent(sorted[j])
     /\ \A i \in DOMAIN Rows :
          (Rows[i] \in {Kept(ask)[k] : k \in DOMAIN Kept(ask)})
            = (Cardinality({p \in 1 .. pages : \E k \in DOMAIN At(p) : At(p)[k] = Rows[i]}) = 1)
     /\ Kept(ask) # <<>> => View(ask).rows # <<>>
     /\ Len(sorted) = Len(Rows) => \A p \in 1 .. pages : Len(At(p)) = Len(At(1))

\* A data column is always on screen, and so is the column the rows are sorted by.
OrderIsOnScreen == DataKeys \ ask.hidden # {} /\ ask.key \notin ask.hidden

\* An area is opened only by a choice: a cursor or a press on it, its whole name, or
\* its being the only one left.
OpensOnlyTheMeant ==
  picked.name # 0 =>
    LET among == {picked.among[i] : i \in DOMAIN picked.among}
    IN /\ picked.name \in among
       /\ picked.cursor \/ among = {picked.name} \/ TextOf[picked.name] = picked.typed

\* The lists show what was asked of them.
ListsAnswer == PagesShowEveryRow /\ OrderIsOnScreen /\ OpensOnlyTheMeant
=============================================================================
