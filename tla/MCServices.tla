----------------------------- MODULE MCServices -----------------------------
(***************************************************************************)
(* Three parts of the server that share no state, side by side: the        *)
(* locations that users see (LocationAccess), a request on its way to its  *)
(* handler (Routes), and a record and its updates (Records).  A behaviour  *)
(* follows one of them.  The variables of Routes are then Rest, those of   *)
(* LocationAccess an account without locations, and those of Records a     *)
(* record that nobody updates.                                             *)
(***************************************************************************)
EXTENDS LocationAccess, Routes, Records

VARIABLE
    part

Symmetry == Permutations(Request)

TwoValues == <<"second", "third">>

Rest == "rest"

HttpRests ==
    /\ stage = Rest /\ incoming = Rest /\ route = 0 /\ at = 0
    /\ token = Rest /\ asked = Rest /\ found = Rest /\ status = Rest

RecordRests ==
    /\ kind = "account" /\ updates = 0 /\ lost = {}
    /\ row = Created(kind, FirstModel({"owner", "type"}, <<>>))
    /\ wanted = [p \in Props(kind) |-> Shown(kind, row, p)]

AccountRests == Init /\ Existing = {}

AllInit ==
    \/ part = "seen" /\ HttpRests /\ RecordRests /\ Init
    \/ part = "http" /\ RecordRests /\ AccountRests /\ RouteInit
    \/ part = "rows" /\ HttpRests /\ AccountRests /\ RecordInit

AllNext ==
    /\ UNCHANGED part
    /\ \/ part = "seen" /\ Next /\ UNCHANGED <<routeVars, recordVars>>
       \/ part = "http" /\ RouteNext /\ UNCHANGED <<recordVars, vars>>
       \/ part = "rows" /\ RecordNext /\ UNCHANGED <<routeVars, vars>>

AllSpec == AllInit /\ [][AllNext]_<<part, vars, routeVars, recordVars>>

-----------------------------------------------------------------------------
(* The properties of Routes hold of the requests: each reaches the handler *)
(* it names, and is not refused when it carries what that handler reads,   *)
(* and the client is told what came of the handler.                        *)
RequestsReachTheirHandler == part = "http" => ReachesItsHandler
RequestsAreAccepted == part = "http" => AcceptsWhatItReads
RequestsAreTold == part = "http" => OutcomeIsTold

=============================================================================
