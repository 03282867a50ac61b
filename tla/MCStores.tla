------------------------------ MODULE MCStores ------------------------------
(***************************************************************************)
(* What the system keeps of what it was told, checked in one run: the      *)
(* browser's cache of answers, the bodies a snapshot keeps, the windows of *)
(* the stuck check, the areas with their sensors, and the visitor figures. *)
(* No two of them share a variable.  Each behaviour moves one of them,     *)
(* chosen at its start, so the run has the sum of their states and not the *)
(* product.                                                                *)
(***************************************************************************)
EXTENDS ApiCache, BodyCache, StuckHistory, Areas, VisitorDays, TLC

VARIABLE subject    \* the part that moves in this behaviour

storeVars ==
    <<subject, vars, cacheVars, historyVars, areaVars, visitorVars>>

\* Calls are interchangeable, and so are URLs.
Symmetric == Permutations(Calls) \cup Permutations(Urls)

\* What was prebuilt, a whole fine tier, a clipped one, and the points of a box.
McBodyRequests ==
    {[tier |-> "coarse", box |-> NoBox, point |-> FALSE],
     [tier |-> "fine", box |-> NoBox, point |-> FALSE],
     [tier |-> "fine", box |-> "x", point |-> FALSE],
     [tier |-> "point", box |-> "x", point |-> TRUE]}
McSizeOf ==
    [q \in McBodyRequests |-> IF q.tier = "fine" THEN IF q.box = NoBox THEN 3 ELSE 2 ELSE 1]

\* A part that is not the subject starts in one state.
StoresInit ==
    /\ subject \in {"answers", "bodies", "stuck", "areas", "visitors"}
    /\ Init /\ (subject # "answers" => \A c, d \in Calls : url[c] = url[d])
    /\ BodyInit /\ HistoryInit /\ AreasInit /\ VisitorInit

StoresNext ==
    /\ UNCHANGED subject
    /\ \/ subject = "answers" /\ Next
       \/ subject = "bodies" /\ BodyNext
       \/ subject = "stuck" /\ HistoryNext
       \/ subject = "areas" /\ AreasNext
       \/ subject = "visitors" /\ VisitorNext
    /\ subject # "answers"  => UNCHANGED vars
    /\ subject # "bodies"   => UNCHANGED cacheVars
    /\ subject # "stuck"    => UNCHANGED historyVars
    /\ subject # "areas"    => UNCHANGED areaVars
    /\ subject # "visitors" => UNCHANGED visitorVars

StoresSpec == StoresInit /\ [][StoresNext]_storeVars

-----------------------------------------------------------------------------

\* What the server remembers is bounded and is what it would find anew: the bodies of
\* a snapshot and the windows of the stuck check.
MemoriesHold ==
    CASE subject = "bodies" -> BodyTypeOK /\ BodiesHold
      [] subject = "stuck"  -> HistoryTypeOK /\ StuckMemoryHolds
      [] OTHER -> TRUE

=============================================================================
