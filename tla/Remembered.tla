----------------------------- MODULE Remembered -----------------------------
(***************************************************************************)
(* What a browser remembers of a visitor between visits: the starred       *)
(* sensor (web/src/lib/favourite.js), the last camera of the home map      *)
(* (lastview.js), the theme (islands/theme.js) and that the locate callout *)
(* was shown (locatehint.js), all through storage.js, which may be full or *)
(* blocked and reads a key's old name when the new one is absent.          *)
(***************************************************************************)
EXTENDS Integers

CONSTANTS Places,      \* cameras inside the box lastview.js accepts
          Stars,       \* sensor ids
          Unset,     \* null: a key that is not there
          MaxDeeds     \* bound: what the visitor does over all visits

ASSUME RememberedAssumption == Unset \notin Places \cup Stars /\ Stars # {} /\ MaxDeeds \in Nat

Keys == {"favourite", "view", "theme", "hint"}
Outside == "outside"     \* a camera out of the box
Home == "home"           \* the camera the page was rendered at
Garbled == "garbled"     \* a value no reader accepts

VARIABLES
  storage,      \* "open", "full" or "blocked"
  disk, legacy, \* the stored values, under kanarche: and under airbg:
  visit,        \* "away", "opening" or "open"
  explicit,     \* the address says where the map opens
  star, theme,  \* the favourite store and the data-theme attribute of the page
  eye, ownEye,  \* the camera; ghost: where the visitor's own last move left it
  saveDue,      \* trackLastView's timer runs
  callout,      \* the locate callout is shown
  chosen,       \* ghost: the last value each key was successfully given
  deeds

rememberedVars == <<storage, disk, legacy, visit, explicit, star, theme, eye, ownEye, saveDue, callout,
                    chosen, deeds>>
diskVars == <<disk, legacy, chosen>>
pageVars == <<star, theme, eye, ownEye, saveDue, callout>>

Deed == deeds < MaxDeeds /\ deeds' = deeds + 1

-----------------------------------------------------------------------------
(* Storage.                                                                *)

Accepted(key) == CASE key = "favourite" -> Stars
                   [] key = "view" -> Places
                   [] key = "theme" -> {"light", "dark"}
                   [] key = "hint" -> {"seen"}

getItem(key) == IF storage = "blocked" THEN Unset
                ELSE IF disk[key] # Unset THEN disk[key] ELSE legacy[key]
\* parseFavourite, parseLastView, readTheme: anything unexpected reads as unset.
read(key) == IF getItem(key) \in Accepted(key) THEN getItem(key) ELSE Unset

setItem(key, value) ==
  IF storage = "open"
  THEN /\ disk' = [disk EXCEPT ![key] = value]
       /\ legacy' = [legacy EXCEPT ![key] = Unset]
       /\ chosen' = [chosen EXCEPT ![key] = value]
  ELSE UNCHANGED diskVars

\* Mutant of removeItems: the value under the old name stays.
removeItems_NewOnly(keys) ==
  IF storage # "blocked"
  THEN /\ disk' = [key \in Keys |-> IF key \in keys THEN Unset ELSE disk[key]]
       /\ chosen' = [key \in Keys |-> IF key \in keys THEN Unset ELSE chosen[key]]
       /\ UNCHANGED legacy
  ELSE UNCHANGED diskVars
removeItems(keys) ==
  IF storage # "blocked"
  THEN /\ disk' = [key \in Keys |-> IF key \in keys THEN Unset ELSE disk[key]]
       /\ legacy' = [key \in Keys |-> IF key \in keys THEN Unset ELSE legacy[key]]
       /\ chosen' = [key \in Keys |-> IF key \in keys THEN Unset ELSE chosen[key]]
  ELSE UNCHANGED diskVars

\* A disk left by earlier visits, under either name, or tampered with.
RememberedInit ==
  /\ storage \in {"open", "full", "blocked"}
  /\ \E v \in Places \cup {Garbled, Unset} :
     \E old \in (IF v = Unset THEN {"new"} ELSE {"new", "old", "both"}) :
       LET kept == [key \in Keys |-> IF key = "view" THEN v
                                     ELSE IF v = Unset THEN Unset
                                     ELSE CHOOSE a \in Accepted(key) : TRUE]
           none == [key \in Keys |-> Unset]
       IN /\ disk = IF old = "old" THEN none ELSE kept
          /\ legacy = IF old = "new" THEN none ELSE kept
          /\ chosen = kept
  /\ visit = "away" /\ explicit \in BOOLEAN
  /\ star = Unset /\ theme = Unset /\ eye = Home /\ ownEye = Unset
  /\ saveDue = FALSE /\ callout = FALSE /\ deeds = 0

-----------------------------------------------------------------------------
(* A visit to the home map.                                                *)

\* shouldShowLocateHint: only to a first visit, and only when it can be remembered.
CalloutDue == /\ ~explicit' /\ storage # "blocked"
              /\ read("view") = Unset /\ getItem("hint") = Unset

\* theme-init and the stores read the disk; the callout is marked seen before it is
\* shown.
Arrive ==
  /\ visit = "away" /\ Deed
  /\ visit' = "opening" /\ explicit' \in BOOLEAN
  /\ star' = read("favourite") /\ theme' = read("theme")
  /\ eye' = Home /\ ownEye' = Unset /\ saveDue' = FALSE
  /\ IF CalloutDue
     THEN setItem("hint", "seen") /\ callout' = (storage = "open")
     ELSE callout' = FALSE /\ UNCHANGED diskVars
  /\ UNCHANGED storage

\* resolveOpeningView, and the opening that follows it: a link to a sensor, the
\* favourite and the geoip lookup may each fail to answer.
OpeningPlaces ==
  {Home} \cup Places   \* the geoip city, the linked or the starred sensor, or nowhere
Opening ==
  /\ visit = "opening"
  /\ visit' = "open"
  /\ \/ /\ eye' \in OpeningPlaces
        /\ explicit \/ read("favourite") # Unset \/ read("view") = Unset
     \/ /\ ~explicit /\ read("view") # Unset
        /\ eye' = read("view")
  /\ UNCHANGED <<storage, diskVars, explicit, star, theme, ownEye, saveDue, callout, deeds>>

\* A drag, a wheel or a zoom button: only these moves start the save timer.
ReaderMoves(c, button) ==
  /\ visit # "away" /\ Deed
  /\ eye' = c /\ ownEye' = c /\ saveDue' = TRUE
  /\ callout' = (callout /\ button)
  /\ UNCHANGED <<storage, diskVars, visit, explicit, star, theme>>

\* The locate button, a late geoip answer, a cell's sensor: the page moves the map.
PageMoves(c) ==
  /\ visit = "open" /\ Deed
  /\ eye' = c
  /\ callout' = FALSE
  /\ UNCHANGED <<storage, diskVars, visit, explicit, star, theme, ownEye, saveDue>>

\* writeLastView refuses what readLastView would refuse.
SaveView ==
  /\ saveDue /\ saveDue' = FALSE
  /\ IF eye \in Places THEN setItem("view", eye) ELSE UNCHANGED diskVars
  /\ UNCHANGED <<storage, visit, explicit, star, theme, eye, ownEye, callout, deeds>>

CalloutEnds ==
  /\ callout /\ callout' = FALSE
  /\ UNCHANGED <<storage, diskVars, visit, explicit, star, theme, eye, ownEye, saveDue, deeds>>

\* toggle: starring the starred sensor removes it.
ToggleStar(id) ==
  /\ visit = "open" /\ Deed
  /\ IF star = id THEN star' = Unset /\ removeItems({"favourite"})
                  ELSE star' = id /\ setItem("favourite", id)
  /\ UNCHANGED <<storage, visit, explicit, theme, eye, ownEye, saveDue, callout>>

\* writeTheme; the picker then shows the attribute, whatever storage did.
PickTheme(t) ==
  /\ visit # "away" /\ Deed
  /\ theme' = t
  /\ IF t = Unset THEN removeItems({"theme"}) ELSE setItem("theme", t)
  /\ UNCHANGED <<storage, visit, explicit, star, eye, ownEye, saveDue, callout>>

\* The visitor leaves: a save that is due is lost.
LeavePage ==
  /\ visit # "away"
  /\ visit' = "away" /\ saveDue' = FALSE /\ callout' = FALSE
  /\ UNCHANGED <<storage, diskVars, explicit, star, theme, eye, ownEye, deeds>>

\* "Clear my settings", on a page without a map.
ClearKeys ==
  /\ visit = "away" /\ Deed
  /\ removeItems(Keys)
  /\ UNCHANGED <<storage, visit, explicit, pageVars>>

RememberedNext ==
  \/ Arrive \/ Opening \/ SaveView \/ CalloutEnds \/ LeavePage \/ ClearKeys
  \/ \E c \in Places \cup {Outside}, button \in BOOLEAN : ReaderMoves(c, button)
  \/ \E c \in Places : PageMoves(c)
  \/ \E id \in Stars : ToggleStar(id)
  \/ \E t \in {"light", "dark", Unset} : PickTheme(t)

RememberedSpec == RememberedInit /\ [][RememberedNext]_rememberedVars

-----------------------------------------------------------------------------
(* Properties.                                                             *)

\* The shape of what is remembered.
RememberedTypeOK ==
  /\ storage \in {"open", "full", "blocked"} /\ visit \in {"away", "opening", "open"}
  /\ \A key \in Keys : {disk[key], legacy[key]} \subseteq Accepted(key) \cup {Garbled, Unset}
  /\ star \in Stars \cup {Unset} /\ theme \in {"light", "dark", Unset}
  /\ eye \in Places \cup {Home, Outside} /\ {explicit, saveDue, callout} \subseteq BOOLEAN

\* Through renames, refused writes, clears and any number of visits, a key reads as
\* the last thing it was given or as nothing once it was removed: the value under
\* the old name never comes back.
ReadsLastChoice ==
  storage # "blocked" => \A key \in Keys : getItem(key) = chosen[key]
=============================================================================
