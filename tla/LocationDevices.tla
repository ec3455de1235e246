--------------------------- MODULE LocationDevices ---------------------------
(***************************************************************************)
(* Operations on a location that reach its devices and sub-locations: the  *)
(* system mode, which is commanded device by device and then recorded, and *)
(* the transfer of a location's devices when accounts are merged.          *)
(*                                                                         *)
(* Source: setSystemMode, transferLocation and transferDevices in          *)
(* src/src/core/location/LocationService.ts, mergeAccounts in              *)
(* core/account/AccountService.ts, setDeviceSystemMode in core/device/     *)
(* DeviceControllerFactory.ts, updatePartialDevice in DeviceService.ts and *)
(* transferDevice in DeviceResolver.ts.  Everything under one Promise.all  *)
(* runs interleaved, and goes on when a sibling is rejected.  The          *)
(* hierarchy does not change here (see LocationHierarchy).                 *)
(***************************************************************************)
EXTENDS Naturals

CONSTANTS
    Location,     \* location ids
    Device,       \* device ids
    Mode,         \* system modes
    Initial,      \* the mode everything starts with
    Below,        \* [Location -> SUBSET Location]: all descendants
    Home,         \* [Device -> Location]: where the devices are at first
    CloneId,      \* [Request -> Location]: the uuid for a clone the request makes
    Direct,       \* the call of a request that addresses one device
    MaxRequests,  \* bound: requests, numbered as they arrive
    MaxFailures   \* bound: calls that fail, forced sleep switched in between

Request == 1..MaxRequests

Fresh == {CloneId[r] : r \in Request}

ASSUME LocationDevicesAssumption ==
    /\ Initial \in Mode
    /\ Below \in [Location -> SUBSET (Location \ Fresh)]  \* a clone is a root
    /\ \A l \in Location : l \notin Below[l]
    /\ CloneId \in [Request -> Location]
    /\ \A q, r \in Request : CloneId[q] = CloneId[r] => q = r
    /\ Home \in [Device -> Location \ Fresh]
    /\ Direct \notin Location
    /\ MaxRequests \in Nat
    /\ MaxFailures \in Nat

VARIABLES
    location,  \* [Location -> record]: target of the system mode, merged mark
    device,    \* [Device -> record]: its location and the recorded mode
    actual,    \* [Device -> Mode]: the mode the device was last sent
    locked,    \* devices in forced sleep
    request,   \* progress of each request
    failures,  \* calls that failed, and switches of forced sleep
    crossed,   \* history: devices that two requests worked on at the same time,
               \* or whose record could not be written
    touched,   \* history: [Request -> what others wrote or locked since it began]
    received   \* history: locations that devices were moved to

vars == <<location, device, actual, locked, request, failures,
          crossed, touched, received>>

Gone == [at |-> "nowhere"]
Unknown == [state |-> "none"]
Idle == [kind |-> "idle"]
NoCall == [pc |-> "none"]
Slot == Location \cup {Direct}

Recorded(d) == device[d] # Gone
DevicesAt(l) == {d \in Device : Recorded(d) /\ device[d].at = l}
Known(l) == location[l] # Unknown

Init ==
    /\ location = [l \in Location |->
            IF l \in Fresh THEN Unknown
            ELSE [state |-> "known", mode |-> Initial, merged |-> FALSE]]
    /\ device = [d \in Device |-> [at |-> Home[d], mode |-> Initial]]
    /\ actual = [d \in Device |-> Initial]
    /\ locked \in SUBSET Device
    /\ request = [r \in Request |-> Idle]
    /\ failures = 0
    /\ crossed = {} /\ received = {}
    /\ touched = [r \in Request |-> {}]

Begin(r, state) ==
    /\ request[r] = Idle
    /\ \A q \in 1..(r - 1) : request[q] # Idle
    /\ request' = [request EXCEPT ![r] = state]

(* History: r writes x while the others are at work, or after they ended.  *)
Touch(r, x) ==
    touched' = [q \in Request |-> IF q = r THEN touched[q] ELSE touched[q] \cup {x}]

(* Devices that a request has read and not yet finished with.              *)
Holds(r) ==
    CASE request[r].kind = "mode" ->
            UNION {request[r].call[s].command \cup request[r].call[s].record :
                    s \in {t \in Slot : request[r].call[t].pc = "work"}}
      [] request[r].kind = "transfer" ->
            IF request[r].pc = "move" THEN DOMAIN request[r].step ELSE {}
      [] OTHER -> {}

Cross(r, devices) ==
    crossed' = crossed \cup (devices \cap UNION {Holds(q) : q \in Request \ {r}})

-----------------------------------------------------------------------------
(* setSystemMode.                                                          *)

Reading == [pc |-> "read"]
Working(devices) == [pc |-> "work", command |-> devices, record |-> {}, failed |-> FALSE]

SetSystemMode(r, l, mode, cascade) ==
    /\ Known(l)
    /\ Begin(r, [kind |-> "mode", top |-> l, target |-> mode, cascade |-> cascade,
                 call |-> [s \in Slot |-> IF s = l THEN Reading ELSE NoCall]])
    /\ touched' = [touched EXCEPT ![r] = locked]
    /\ UNCHANGED <<location, device, actual, locked, failures, crossed, received>>

(* POST /devices/:id/systemMode: the same two steps for one device, also   *)
(* when it is locked.                                                      *)
SetDeviceSystemMode(r, d, mode) ==
    /\ Begin(r, [kind |-> "mode", top |-> Direct, target |-> mode, cascade |-> FALSE,
                 call |-> [s \in Slot |-> IF s = Direct THEN Working({d}) ELSE NoCall]])
    /\ touched' = [touched EXCEPT ![r] = locked]
    /\ Cross(r, {d})
    /\ UNCHANGED <<location, device, actual, locked, failures, received>>

Call(r, s, state) == request' = [request EXCEPT ![r].call[s] = state]

(* Mutant: nothing below the location is called.                           *)
CalledNever(r, l) == {}

(* The descendants are called in the same way, without a further cascade.  *)
Called(r, l) == IF request[r].cascade /\ l = request[r].top THEN Below[l] ELSE {}

ReadDevices(r, l) ==
    /\ request[r].kind = "mode"
    /\ request[r].call[l] = Reading
    /\ LET devices == DevicesAt(l)
           unlocked == devices \ locked
       IN  IF devices # {} /\ unlocked = {}
           THEN /\ Call(r, l, [pc |-> "failed"])   \* 'All devices are in locked ...'
                /\ UNCHANGED crossed
           ELSE /\ request' = [request EXCEPT
                        ![r].call = [s \in Slot |->
                            IF s \in Called(r, l) THEN Reading
                            ELSE IF s = l THEN Working(unlocked) ELSE @[s]]]
                /\ Cross(r, unlocked)
    /\ UNCHANGED <<location, device, actual, locked, failures, touched, received>>

(* First the device is sent the mode, by the legacy API, which checks the  *)
(* permission ...                                                          *)
Command(r, s, d) ==
    /\ request[r].kind = "mode"
    /\ request[r].call[s].pc = "work"
    /\ d \in request[r].call[s].command
    /\ actual' = [actual EXCEPT ![d] = request[r].target]
    /\ request' = [request EXCEPT ![r].call[s].command = @ \ {d},
                                  ![r].call[s].record = @ \cup {d}]
    /\ Touch(r, d)
    /\ UNCHANGED <<location, device, locked, failures, crossed, received>>

(* ... then updatePartialDevice records it, if the device is there.        *)
Record(r, s, d) ==
    /\ request[r].kind = "mode"
    /\ request[r].call[s].pc = "work"
    /\ d \in request[r].call[s].record
    /\ IF Recorded(d)
       THEN /\ device' = [device EXCEPT ![d].mode = request[r].target]
            /\ request' = [request EXCEPT ![r].call[s].record = @ \ {d}]
       ELSE /\ request' = [request EXCEPT ![r].call[s].record = @ \ {d},
                                          ![r].call[s].failed = TRUE]
            /\ UNCHANGED device
    /\ Touch(r, d)
    /\ UNCHANGED <<location, actual, locked, failures, crossed, received>>

(* The legacy API refuses or does not answer.                              *)
CommandFails(r, s, d) ==
    /\ request[r].kind = "mode"
    /\ request[r].call[s].pc = "work"
    /\ d \in request[r].call[s].command
    /\ failures < MaxFailures
    /\ failures' = failures + 1
    /\ request' = [request EXCEPT ![r].call[s].command = @ \ {d},
                                  ![r].call[s].failed = TRUE]
    /\ UNCHANGED <<location, device, actual, locked, crossed, touched, received>>

(* The command was carried out, but the record is not written.             *)
RecordFails(r, s, d) ==
    /\ request[r].kind = "mode"
    /\ request[r].call[s].pc = "work"
    /\ d \in request[r].call[s].record
    /\ failures < MaxFailures
    /\ failures' = failures + 1
    /\ crossed' = crossed \cup {d}
    /\ request' = [request EXCEPT ![r].call[s].record = @ \ {d},
                                  ![r].call[s].failed = TRUE]
    /\ UNCHANGED <<location, device, actual, locked, touched, received>>

SubCalls(r, s) == IF s = request[r].top THEN Slot \ {s} ELSE {}
Ended(state) == state.pc \in {"none", "done", "failed"}

Rejected(r, s) ==
    \/ request[r].call[s].failed
    \/ \E t \in SubCalls(r, s) : request[r].call[t].pc = "failed"

(* When all of Promise.all is done the location is written, last; if one   *)
(* was rejected it never is, though the others have changed.               *)
SaveMode(r, s) ==
    /\ request[r].kind = "mode"
    /\ request[r].call[s].pc = "work"
    /\ request[r].call[s].command = {} /\ request[r].call[s].record = {}
    /\ \A t \in SubCalls(r, s) : Ended(request[r].call[t])
    /\ IF Rejected(r, s)
       THEN Call(r, s, [pc |-> "failed"]) /\ UNCHANGED <<location, touched>>
       ELSE /\ Call(r, s, [pc |-> "done"])
            /\ IF s = Direct
               THEN UNCHANGED <<location, touched>>
               ELSE /\ location' = [location EXCEPT ![s].mode = request[r].target]
                    /\ Touch(r, s)
    /\ UNCHANGED <<device, actual, locked, failures, crossed, received>>

(* Forced sleep is switched at the device, elsewhere.                      *)
Lock(d) ==
    /\ failures < MaxFailures
    /\ failures' = failures + 1
    /\ locked' = IF d \in locked THEN locked \ {d} ELSE locked \cup {d}
    /\ touched' = [r \in Request |-> touched[r] \cup {d}]
    /\ UNCHANGED <<location, device, actual, request, crossed, received>>

-----------------------------------------------------------------------------
(* Transfers.  mergeAccounts starts one transfer per location, side by     *)
(* side: to a chosen location of the other account (transferDevices), or   *)
(* to a clone (transferLocation).                                          *)

Moving(src, dest, devices) ==
    [kind |-> "transfer", pc |-> "move", src |-> src, dest |-> dest,
     step |-> [d \in devices |-> [pc |-> "read"]], failed |-> FALSE]

TransferDevices(r, src, dest) ==
    /\ Known(src) /\ Known(dest) /\ src # dest
    /\ Begin(r, Moving(src, dest, DevicesAt(src)))
    /\ Cross(r, DevicesAt(src))
    /\ UNCHANGED <<location, device, actual, locked, failures, touched, received>>

(* 'Cannot transfer location with parent or children.'                     *)
Rootless(l) == Below[l] = {} /\ \A m \in Location : l \notin Below[m]

TransferLocation(r, src) ==
    /\ Known(src)
    /\ Rootless(src)
    /\ Begin(r, [kind |-> "transfer", pc |-> "clone", src |-> src,
                 mode |-> location[src].mode, merged |-> location[src].merged])
    /\ UNCHANGED <<location, device, actual, locked, failures, crossed, touched, received>>

(* createLocation with what was read, the mark of an earlier transfer too; *)
(* then the devices are read.                                              *)
CloneLocation(r) ==
    /\ request[r].kind = "transfer" /\ request[r].pc = "clone"
    /\ location' = [location EXCEPT ![CloneId[r]] =
            [state |-> "known", mode |-> request[r].mode, merged |-> request[r].merged]]
    /\ request' = [request EXCEPT ![r] = Moving(@.src, CloneId[r], DevicesAt(@.src))]
    /\ Cross(r, DevicesAt(request[r].src))
    /\ UNCHANGED <<device, actual, locked, failures, touched, received>>

AtStep(r, d, pc) ==
    /\ request[r].kind = "transfer" /\ request[r].pc = "move"
    /\ d \in DOMAIN request[r].step
    /\ request[r].step[d].pc = pc

Step(r, d, state) == request' = [request EXCEPT ![r].step[d] = state]

Reject(r, d) ==
    request' = [request EXCEPT ![r].step[d] = [pc |-> "end"], ![r].failed = TRUE]

(* transferDevice reads the record ...                                     *)
ReadRecord(r, d) ==
    /\ AtStep(r, d, "read")
    /\ IF Recorded(d)
       THEN Step(r, d, [pc |-> "remove", mode |-> device[d].mode])
       ELSE Reject(r, d)          \* 'Device not found.'
    /\ UNCHANGED <<location, device, actual, locked, failures, crossed,
                   touched, received>>

(* ... removes it ...                                                      *)
RemoveRecord(r, d) ==
    /\ AtStep(r, d, "remove")
    /\ IF Recorded(d)
       THEN /\ device' = [device EXCEPT ![d] = Gone]
            /\ Step(r, d, [request[r].step[d] EXCEPT !.pc = "put"])
       ELSE Reject(r, d) /\ UNCHANGED device
    /\ UNCHANGED <<location, actual, locked, failures, crossed, touched, received>>

(* Mutant: puts a new record instead of the one it read.                   *)
PutRecordAnew(r, d) ==
    /\ AtStep(r, d, "put")
    /\ device' = [device EXCEPT ![d] = [at |-> request[r].dest, mode |-> Initial]]
    /\ received' = received \cup {request[r].dest}
    /\ Touch(r, d)
    /\ Step(r, d, [pc |-> "end"])
    /\ UNCHANGED <<location, actual, locked, crossed, failures>>

(* ... and puts what it read, at the destination; a call after that may    *)
(* fail (the notification service moves the events).                       *)
PutRecord(r, d) ==
    /\ AtStep(r, d, "put")
    /\ device' = [device EXCEPT ![d] =
            [at |-> request[r].dest, mode |-> request[r].step[d].mode]]
    /\ received' = received \cup {request[r].dest}
    /\ Touch(r, d)
    /\ \/ Step(r, d, [pc |-> "end"]) /\ UNCHANGED failures
       \/ Reject(r, d) /\ failures < MaxFailures /\ failures' = failures + 1
    /\ UNCHANGED <<location, actual, locked, crossed>>

(* The record was removed and is not put back.                             *)
PutFails(r, d) ==
    /\ AtStep(r, d, "put")
    /\ failures < MaxFailures
    /\ failures' = failures + 1
    /\ crossed' = crossed \cup {d}
    /\ Reject(r, d)
    /\ UNCHANGED <<location, device, actual, locked, touched, received>>

(* Mutant: the location is marked though a device was not moved.           *)
MovedAny(r) == \A d \in DOMAIN request[r].step : request[r].step[d].pc \in {"end", "read"}

Moved(r) == \A d \in DOMAIN request[r].step : request[r].step[d].pc = "end"

MarkMerged(r) ==
    /\ request[r].kind = "transfer" /\ request[r].pc = "move"
    /\ Moved(r)
    /\ location' = IF request[r].failed THEN location
                   ELSE [location EXCEPT ![request[r].src].merged = TRUE]
    /\ request' = [request EXCEPT ![r].pc = IF request[r].failed THEN "failed" ELSE "done"]
    /\ UNCHANGED <<device, actual, locked, failures, crossed, touched, received>>

-----------------------------------------------------------------------------
Work(r) ==
    \/ \E l \in Location : ReadDevices(r, l)
    \/ \E s \in Slot : SaveMode(r, s) \/ \E d \in Device : Command(r, s, d) \/ Record(r, s, d)
    \/ \E d \in Device : ReadRecord(r, d) \/ RemoveRecord(r, d) \/ PutRecord(r, d)
    \/ CloneLocation(r) \/ MarkMerged(r)

Next ==
    \/ \E r \in Request :
        \/ \E l \in Location, m \in Mode, c \in BOOLEAN : SetSystemMode(r, l, m, c)
        \/ \E d \in Device, m \in Mode : SetDeviceSystemMode(r, d, m)
        \/ \E src, dest \in Location : TransferDevices(r, src, dest)
        \/ \E src \in Location : TransferLocation(r, src)
        \/ \E s \in Slot, d \in Device : CommandFails(r, s, d) \/ RecordFails(r, s, d)
        \/ \E d \in Device : PutFails(r, d)
        \/ Work(r)
    \/ \E d \in Device : Lock(d)

Spec == Init /\ [][Next]_vars

-----------------------------------------------------------------------------
(* When setSystemMode has been answered with success, the location, with   *)
(* shouldCascade every location below it, and all their devices have the   *)
(* mode, in the record and in the last command, except what another        *)
(* request wrote, or forced sleep locked, since the request began.         *)
Scope(r) ==
    {request[r].top} \cup (IF request[r].cascade THEN Below[request[r].top] ELSE {})

Succeeded(r) ==
    /\ request[r].kind = "mode" /\ request[r].top # Direct
    /\ request[r].call[request[r].top].pc = "done"

DoneIsUniform ==
    \A r \in Request : Succeeded(r) =>
        \A l \in Scope(r) :
            /\ l \in touched[r] \/ location[l].mode = request[r].target
            /\ \A d \in DevicesAt(l) \ touched[r] :
                device[d].mode = request[r].target /\ actual[d] = request[r].target

(* The record of a device that nobody is working on shows the mode the     *)
(* device was last sent, unless two requests worked on it at the same      *)
(* time (two commands and their records may interleave, and a transfer     *)
(* puts back the record it read earlier), or its record was not written.   *)
RecordFollowsCommand ==
    \A d \in Device \ crossed :
        (\A r \in Request : d \notin Holds(r)) => Recorded(d) /\ device[d].mode = actual[d]

(* A location that was marked as merged into another has no device left,   *)
(* also if one of several transfers failed, unless devices were moved to   *)
(* it in turn.                                                             *)
MergedIsEmptied ==
    \A l \in Location : Known(l) /\ location[l].merged => DevicesAt(l) = {} \/ l \in received

=============================================================================
