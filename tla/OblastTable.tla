---------------------------- MODULE OblastTable ----------------------------
(***************************************************************************)
(* The province table of the design kit's prototype                        *)
(* (design-kit/ui_kits/app/oblast-table.js): its order, its three filters, *)
(* the pages cut from what is left, the combobox over the names and the    *)
(* menu of columns, over rows whose readings a refresh replaces in place   *)
(* and whose names follow the page's language.                             *)
(*                                                                         *)
(* Texts are members of a set; which names a text occurs in or begins is   *)
(* given.  Rows are numbered as the page was served.                       *)
(***************************************************************************)
EXTENDS Integers, Sequences, FiniteSets, Sorting

CONSTANTS Feeds,        \* the readings that arrive: each a sequence of [value, pm10, sensors]
          NoDatum,      \* a silent row's value and pm10
          NameOf,       \* language -> the rows' names
          RankOf,       \* language -> the rows' places in its collator's order
          Occurs,       \* a text -> the names it occurs in
          Begins,       \* a text -> the names it is a proper or whole beginning of
          Typed,        \* what is typed
          SavedColumns, \* what the storage can hold for the columns hidden
          MaxTableActs  \* bound: gestures in a behaviour

ASSUME OblastTableAssumption ==
  /\ 1 \in DOMAIN Feeds /\ MaxTableActs \in Nat /\ Typed \ {""} \subseteq DOMAIN Occurs
  /\ \A f \in DOMAIN Feeds :
       /\ Len(Feeds[f]) \in Nat /\ DOMAIN Feeds[f] = 1 .. Len(Feeds[f])
       /\ DOMAIN Feeds[f] = DOMAIN NameOf["bg"]
  /\ \A saved \in SavedColumns : IsFiniteSet(saved)

COLS == <<"pm25", "pm10", "sensors">>
MIN_PAGE == 3
MAX_OPTIONS == 3
WHOLE == 0    \* perPage 'all'

VARIABLES
  feed,         \* the readings in the rows
  tongue,       \* the page's language
  table,        \* key, dir, q, filter, perPage, page, and lastCount of syncPageSizes
  field,        \* what the search field shows
  options,      \* the rows offered, as last built
  listShown, activeIndex,
  columnsOff, columnsStored,
  tableActs

tableVars == <<feed, tongue, table, field, options, listShown, activeIndex,
               columnsOff, columnsStored, tableActs>>
listboxVars == <<options, listShown, activeIndex>>
columnVars == <<columnsOff, columnsStored>>

-----------------------------------------------------------------------------
Datum(f, r, key) == Feeds[f][r][key]
hasData(f, r) == Datum(f, r, "value") # NoDatum
OfTable(f) == DOMAIN Feeds[f]

\* compare: silence sinks in every order, and the silent are alphabetical among
\* themselves but for their sensor counts.  Less is strict; the sort is stable.
\* Mutant of Less: the direction turns the silent rows too.
Less_Turned(t, f, l, a, b) ==
  LET lt(x, y) == IF t.dir = "ascending" THEN x < y ELSE y < x
  IN IF hasData(f, a) # hasData(f, b) THEN IF t.dir = "ascending" THEN hasData(f, b) ELSE hasData(f, a)
     ELSE IF t.key = "name" THEN lt(RankOf[l][a], RankOf[l][b])
     ELSE IF ~hasData(f, a) /\ t.key # "sensors" THEN RankOf[l][a] < RankOf[l][b]
     ELSE lt(Datum(f, a, t.key), Datum(f, b, t.key))
Less(t, f, l, a, b) ==
  LET lt(x, y) == IF t.dir = "ascending" THEN x < y ELSE y < x
  IN IF hasData(f, a) # hasData(f, b) THEN hasData(f, a)
     ELSE IF t.key = "name" THEN lt(RankOf[l][a], RankOf[l][b])
     ELSE IF ~hasData(f, a) /\ t.key # "sensors" THEN RankOf[l][a] < RankOf[l][b]
     ELSE lt(Datum(f, a, t.key), Datum(f, b, t.key))

passesFilter(t, f, r) == CASE t.filter = "withdata" -> hasData(f, r)
                     [] t.filter = "nodata" -> ~hasData(f, r)
                     [] OTHER -> TRUE
matches(t, f, l, r) == passesFilter(t, f, r) /\ (t.q = "" \/ NameOf[l][r] \in Occurs[t.q])
\* rows.filter(matches): in the served order.
Visible(t, f, l) == Ascending({r \in OfTable(f) : matches(t, f, l, r)})

\* The largest true divisors of the count.
sizesFor(n) ==
  LET divisors == {d \in MIN_PAGE .. n - 1 : n % d = 0}
  IN {d \in divisors : Cardinality({e \in divisors : e > d}) < MAX_OPTIONS}

\* A size that no longer divides the count falls back to the whole.
\* Mutant of syncPageSizes: the reader's choice is kept.
syncPageSizes_Kept(t, n) == [t EXCEPT !.lastCount = n]
syncPageSizes(t, n) ==
  IF n = t.lastCount THEN t
  ELSE IF t.perPage = WHOLE \/ t.perPage \in sizesFor(n) THEN [t EXCEPT !.lastCount = n]
  ELSE [t EXCEPT !.lastCount = n, !.perPage = WHOLE, !.page = 1]

pageSize(t, f) == IF t.perPage = WHOLE THEN Len(Feeds[f]) ELSE t.perPage
pagesOf(t, f, n) == IF n = 0 THEN 1 ELSE (n + pageSize(t, f) - 1) \div pageSize(t, f)
\* render: the page is clamped into what is left.
render(t, f, l) ==
  LET n == Len(Visible(t, f, l))
      s == syncPageSizes(t, n)
      pages == pagesOf(s, f, n)
  IN [s EXCEPT !.page = IF @ > pages THEN pages ELSE IF @ < 1 THEN 1 ELSE @]

\* The rows not hidden, in the document's order.
OnPage(t, f, l) ==
  LET visible == Visible(t, f, l)
      from == (t.page - 1) * pageSize(t, f)
  IN {visible[i] : i \in DOMAIN visible \cap (from + 1 .. from + pageSize(t, f))}
tableBefore(t, f, l, a, b) == Less(t, f, l, a, b) \/ (~Less(t, f, l, b, a) /\ a < b)

\* optionRows: names that begin with the text first, then by the alphabet.
optionRows(t, f, l) ==
  LET offered == {r \in OfTable(f) : matches(t, f, l, r)}
      leads(r) == t.q = "" \/ NameOf[l][r] \in Begins[t.q]
      ahead(a, b) == IF leads(a) # leads(b) THEN leads(a) ELSE RankOf[l][a] < RankOf[l][b]
  IN Sorted(offered, {p \in offered \X offered : ahead(p[1], p[2])})

-----------------------------------------------------------------------------
ShownColumns(off) == {COLS[i] : i \in DOMAIN COLS} \ off
ColumnOf == [value |-> "pm25", pm10 |-> "pm10", sensors |-> "sensors"]
KeyOf == [pm25 |-> "value", pm10 |-> "pm10", sensors |-> "sensors"]
\* applyColumns: an order its column no longer explains falls back to the first shown.
\* Mutant of applyColumns: the order stays.
applyColumns_Stay(t, off) == t
applyColumns(t, off) ==
  IF t.key = "name" \/ ColumnOf[t.key] \notin off THEN t
  ELSE LET first == CHOOSE i \in DOMAIN COLS :
                      COLS[i] \notin off /\ \A j \in 1 .. i - 1 : COLS[j] \in off
       IN [t EXCEPT !.key = KeyOf[COLS[first]], !.dir = "descending"]
\* restoreColumns: nothing stored may empty the table.
restoreColumns(saved) ==
  IF Cardinality(saved) >= Len(COLS) THEN {} ELSE saved \cap {COLS[i] : i \in DOMAIN COLS}

Fresh == [key |-> "value", dir |-> "descending", q |-> "", filter |-> "withdata",
          perPage |-> WHOLE, page |-> 1, lastCount |-> -1]
Opened(off) == render(applyColumns(Fresh, off), 1, "bg")

OblastTableInit ==
  /\ feed = 1 /\ tongue = "bg" /\ field = ""
  /\ options = <<>> /\ listShown = FALSE /\ activeIndex = -1
  /\ \E saved \in SavedColumns : columnsOff = restoreColumns(saved)
  /\ columnsStored = columnsOff
  /\ table = Opened(columnsOff)
  /\ tableActs = 0

TableAct == tableActs < MaxTableActs /\ tableActs' = tableActs + 1
openList(t) ==
  /\ options' = optionRows(t, feed, tongue)
  /\ listShown' = TRUE
\* Mutant of closeList: the highlight outlives the list.
closeList_Lit == listShown' = FALSE /\ UNCHANGED <<options, activeIndex>>
closeList == listShown' = FALSE /\ activeIndex' = -1 /\ UNCHANGED options
Redraws(t) == table' = render(t, feed, tongue)

HeadPressed ==
  /\ TableAct
  /\ \E key \in {"name"} \cup {KeyOf[c] : c \in ShownColumns(columnsOff)} :
       Redraws([table EXCEPT
         !.key = key, !.page = 1,
         !.dir = IF table.key = key
                 THEN IF @ = "ascending" THEN "descending" ELSE "ascending"
                 ELSE IF key = "name" THEN "ascending" ELSE "descending"])
  /\ UNCHANGED <<feed, tongue, field, listboxVars, columnVars>>

\* applyQuery; only a text made longer is completed, to the first name it begins.
applyQuery(text, adding) ==
  LET t == [table EXCEPT !.q = text, !.page = 1]
      opts == optionRows(t, feed, tongue)
      completes == adding /\ text # "" /\ opts # <<>> /\ NameOf[tongue][opts[1]] \in Begins[text]
  IN /\ field' = IF completes THEN NameOf[tongue][opts[1]] ELSE text
     /\ openList(t) /\ activeIndex' = -1
     /\ Redraws(t)
Type ==
  /\ TableAct
  /\ \E text \in Typed, adding \in BOOLEAN : applyQuery(text, adding /\ text # "")
  /\ UNCHANGED <<feed, tongue, columnVars>>
FocusField ==
  /\ ~listShown /\ TableAct
  /\ openList(table)
  /\ UNCHANGED <<feed, tongue, table, field, activeIndex, columnVars>>
\* Blur, Tab, or Enter with nothing highlighted.
LeaveField ==
  /\ listShown /\ closeList
  /\ UNCHANGED <<feed, tongue, table, field, columnVars, tableActs>>
Arrow ==
  /\ TableAct
  /\ IF listShown THEN UNCHANGED <<options, listShown>> ELSE openList(table)
  /\ \E step \in {1, -1} :
       LET n == Len(options') IN
       activeIndex' = IF n = 0 THEN activeIndex
                      ELSE IF activeIndex + step >= n THEN 0
                      ELSE IF activeIndex + step < 0 THEN n - 1 ELSE activeIndex + step
  /\ UNCHANGED <<feed, tongue, table, field, columnVars>>
HomeOrEnd ==
  /\ listShown /\ Len(options) > 0 /\ TableAct
  /\ activeIndex' \in {0, Len(options) - 1}
  /\ UNCHANGED <<feed, tongue, table, field, options, listShown, columnVars>>
\* choose, by the pointer or by Enter on the highlighted option.
ChooseOption ==
  /\ listShown /\ TableAct
  /\ \E i \in DOMAIN options :
       LET name == NameOf[tongue][options[i]] IN
       field' = name /\ Redraws([table EXCEPT !.q = name, !.page = 1])
  /\ closeList
  /\ UNCHANGED <<feed, tongue, columnVars>>
\* The first Escape closes the list, the second empties the field.
EscapeField ==
  /\ TableAct
  /\ IF listShown THEN UNCHANGED <<table, field>>
     ELSE /\ field # ""
          /\ field' = "" /\ Redraws([table EXCEPT !.q = "", !.page = 1])
  /\ listShown' = FALSE /\ activeIndex' = -1
  /\ options' = IF listShown THEN options ELSE optionRows([table EXCEPT !.q = ""], feed, tongue)
  /\ UNCHANGED <<feed, tongue, columnVars>>

ChoosePerPage ==
  /\ TableAct
  /\ \E n \in {WHOLE} \cup sizesFor(table.lastCount) : Redraws([table EXCEPT !.perPage = n, !.page = 1])
  /\ UNCHANGED <<feed, tongue, field, listboxVars, columnVars>>
TurnPage ==
  /\ TableAct
  /\ LET last == pagesOf(table, feed, Len(Visible(table, feed, tongue))) IN
     \E p \in {1, table.page - 1, table.page + 1, last} : Redraws([table EXCEPT !.page = p])
  /\ UNCHANGED <<feed, tongue, field, listboxVars, columnVars>>
\* A press on the radios takes the focus from the field first.
ChooseFilter ==
  /\ ~listShown /\ TableAct
  /\ \E w \in {"all", "withdata", "nodata"} : Redraws([table EXCEPT !.filter = w, !.page = 1])
  /\ UNCHANGED <<feed, tongue, field, listboxVars, columnVars>>

\* The last column shown is locked.
SwitchColumn ==
  /\ TableAct
  /\ \E c \in {COLS[i] : i \in DOMAIN COLS} :
       LET off == IF c \in columnsOff THEN columnsOff \ {c} ELSE columnsOff \cup {c} IN
       /\ ShownColumns(columnsOff) # {c}
       /\ columnsOff' = off /\ columnsStored' = off
       /\ Redraws(applyColumns(table, off))
  /\ UNCHANGED <<feed, tongue, field, listboxVars>>

\* airbg:datachange: the readings move under the reader's sort, filter and page.
DataChange ==
  /\ TableAct
  /\ feed' \in DOMAIN Feeds
  /\ table' = render(table, feed', tongue)
  /\ UNCHANGED <<tongue, field, listboxVars, columnVars>>
\* airbg:languagechange: the text in the field is searched anew.  The picker of languages
\* takes the focus from the field first, so an open list is never rebuilt here.
LanguageChange ==
  /\ ~listShown /\ TableAct
  /\ tongue' = IF tongue = "bg" THEN "en" ELSE "bg"
  /\ table' = render([table EXCEPT !.q = field, !.lastCount = -1], feed, tongue')
  /\ UNCHANGED <<feed, field, listboxVars, columnVars>>
Reload ==
  /\ TableAct
  /\ feed' = 1 /\ tongue' = "bg" /\ field' = "" /\ options' = <<>> /\ listShown' = FALSE /\ activeIndex' = -1
  /\ columnsOff' = restoreColumns(columnsStored) /\ columnsStored' = columnsOff'
  /\ table' = Opened(columnsOff')

OblastTableNext ==
  \/ HeadPressed \/ Type \/ FocusField \/ LeaveField \/ Arrow \/ HomeOrEnd \/ ChooseOption \/ EscapeField
  \/ ChoosePerPage \/ TurnPage \/ ChooseFilter \/ SwitchColumn
  \/ DataChange \/ LanguageChange \/ Reload
OblastTableSpec == OblastTableInit /\ [][OblastTableNext]_tableVars

-----------------------------------------------------------------------------
\* oblast-table.js:8, :15-20, :22, :126, :494-501: no measured row stands below a silent
\* one on any page of any order; every page is full and none is past the end; the
\* order's column is shown, and one always is; a highlight is on one of the options the
\* open list holds, however they changed under it.
TableKeepsItsRules ==
  LET n == Len(Visible(table, feed, tongue))
      page == OnPage(table, feed, tongue)
  IN /\ \A a, b \in page : hasData(feed, b) /\ ~hasData(feed, a) => ~tableBefore(table, feed, tongue, a, b)
     /\ table.lastCount = n
     /\ table.perPage # WHOLE => table.perPage \in sizesFor(n) /\ Cardinality(page) = table.perPage
     /\ n > 0 => page # {}
     /\ table.page \in 1 .. pagesOf(table, feed, n)
     /\ ShownColumns(columnsOff) # {} /\ columnsStored = columnsOff
     /\ table.key # "name" => ColumnOf[table.key] \in ShownColumns(columnsOff)
     /\ activeIndex # -1 => listShown /\ activeIndex \in 0 .. Len(options) - 1

=============================================================================
