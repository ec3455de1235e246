--------------------------- MODULE DevicePairing ---------------------------
(***************************************************************************)
(* Pairing, connection, transfer and removal of a device.  A device is a   *)
(* record in DynamoDB, an entry in the internal device service, and rows   *)
(* in Postgres that link it with LTE SIM cards.                            *)
(*                                                                         *)
(* Source: src/src/core/device/DeviceControllerFactory.ts,                 *)
(* DeviceService.ts, DeviceResolver.ts, LteService.ts, DeviceLteTable.ts,  *)
(* and src/src/concurrency/ConcurrencyService.ts.  Requests run in several *)
(* processes; each call of a store is a step of its own.  Locations exist  *)
(* and are units, and the device is not a puck.                            *)
(***************************************************************************)
EXTENDS Naturals

CONSTANTS
    Mac,          \* MAC addresses
    Id,           \* device ids (uuids)
    Sim,          \* LTE modems, known by their imei
    NoSim,        \* no connectivity.lte in a request
    Request,      \* requests that may run at the same time
    MaxRequests,  \* bound: requests
    MaxFailures   \* bound: calls that fail, processes that stop, locks that expire

ASSUME PairingAssumption ==
    /\ NoSim \notin Sim
    /\ MaxRequests \in Nat
    /\ MaxFailures \in Nat

VARIABLES
    device,    \* [Id -> record]: the ICD table
    pairInit,  \* MAC addresses scanned and not yet expired: the PairInit table
    lock,      \* [Mac -> "free" or "held"]: pairing:mutex:<mac>
    known,     \* MAC addresses in the internal device service
    link,      \* the rows (device, SIM) of device_lte
    request,   \* progress of each request
    created,   \* history: the pairs of id and MAC address that ever were recorded
    removed,   \* history: ids whose removal was answered with success
    spoilt,    \* history: [Mac -> what disturbed its requests]
    requests,  \* requests so far
    failures   \* failures so far

vars == <<device, pairInit, lock, known, link, request, created, removed, spoilt,
          requests, failures>>

NoDevice == [mac |-> "none"]
Idle == [pc |-> "idle"]
Exists(id) == device[id] # NoDevice
At(mac) == {id \in Id : Exists(id) /\ device[id].mac = mac}

(* A device may have been recorded, not paired, before this code.          *)
Init ==
    /\ device \in {[id \in Id |-> NoDevice]} \cup
          {[id \in Id |-> IF id = d THEN [mac |-> m, paired |-> FALSE] ELSE NoDevice] :
              d \in Id, m \in Mac}
    /\ pairInit = {}
    /\ lock = [m \in Mac |-> "free"]
    /\ known = {device[id].mac : id \in {i \in Id : Exists(i)}}
    /\ link = {}
    /\ request = [r \in Request |-> Idle]
    /\ created = {<<id, device[id].mac>> : id \in {i \in Id : Exists(i)}}
    /\ removed = {}
    /\ spoilt = [m \in Mac |-> {}]
    /\ requests = 0
    /\ failures = 0

-----------------------------------------------------------------------------
(* What disturbs: a transfer at the same time as any request for the same  *)
(* MAC address, a removal at the same time as another request for the same *)
(* device.                                                                 *)
Active(mac) == {r \in Request : request[r].pc # "idle" /\ request[r].mac = mac}
Disturbs(kind, mac, id) ==
    (IF \E r \in Active(mac) : "transfer" \in {kind, request[r].kind}
     THEN {"transfer"} ELSE {})
    \cup
    (IF \E r \in Active(mac) : id = request[r].id /\ "remove" \in {kind, request[r].kind}
     THEN {"removal"} ELSE {})

Spoil(mac, how) == spoilt' = [spoilt EXCEPT ![mac] = @ \cup how]

Start(r, state) ==
    /\ request[r].pc = "idle"
    /\ requests < MaxRequests
    /\ requests' = requests + 1
    /\ request' = [request EXCEPT ![r] = state]
    /\ Spoil(state.mac, Disturbs(state.kind, state.mac, state.id))

Goto(r, pc) ==
    request' = [request EXCEPT ![r] = IF pc = "idle" THEN Idle ELSE [@ EXCEPT !.pc = pc]]

(* scanQrCode: markPairInit and upsertDevice.                              *)
ScanQrCode(mac) ==
    /\ pairInit' = pairInit \cup {mac}
    /\ known' = known \cup {mac}
    /\ UNCHANGED <<device, lock, link, request, created, removed, spoilt, requests, failures>>

PairInitExpires(mac) ==
    /\ pairInit' = pairInit \ {mac}
    /\ UNCHANGED <<device, lock, known, link, request, created, removed, spoilt, requests, failures>>

-----------------------------------------------------------------------------
(* pairDevice.                                                             *)

(* Mutant: the answer of Redis is not looked at.                           *)
AcquireLockAnyway(r, mac, sim) ==
    /\ Start(r, [kind |-> "pair", pc |-> "read", mac |-> mac, sim |-> sim, id |-> "new"])
    /\ lock' = [lock EXCEPT ![mac] = "held"]
    /\ UNCHANGED <<device, pairInit, known, link, created, removed, failures>>

(* Otherwise 'Device pairing in process.'                                  *)
AcquireLock(r, mac, sim) ==
    /\ lock[mac] = "free"
    /\ Start(r, [kind |-> "pair", pc |-> "read", mac |-> mac, sim |-> sim, id |-> "new"])
    /\ lock' = [lock EXCEPT ![mac] = "held"]
    /\ UNCHANGED <<device, pairInit, known, link, created, removed, failures>>

(* getByMacAddress and the pair-init record: refused if the device is      *)
(* paired or was not scanned.  A record that is not paired is used as it   *)
(* is.                                                                     *)
ReadDevice(r) ==
    /\ request[r].pc = "read"
    /\ LET q == request[r]
       IN  IF At(q.mac) = {}
           THEN Goto(r, IF q.mac \in pairInit THEN "create" ELSE "release") /\ UNCHANGED spoilt
           ELSE \E id \in At(q.mac) :
                  IF device[id].paired \/ q.mac \notin pairInit
                  THEN Goto(r, "release") /\ UNCHANGED spoilt
                  ELSE /\ request' = [request EXCEPT ![r] = [q EXCEPT !.pc = "upsert", !.id = id]]
                       /\ Spoil(q.mac, Disturbs("pair", q.mac, id))
    /\ UNCHANGED <<device, pairInit, lock, known, link, created, removed, requests, failures>>

(* deviceResolver.createDevice with a new uuid.                            *)
CreateDevice(r) ==
    /\ request[r].pc = "create"
    /\ \E id \in Id :
        /\ \A c \in created : c[1] # id
        /\ device' = [device EXCEPT ![id] = [mac |-> request[r].mac, paired |-> TRUE]]
        /\ created' = created \cup {<<id, request[r].mac>>}
        /\ request' = [request EXCEPT ![r].pc = "upsert", ![r].id = id]
    /\ UNCHANGED <<pairInit, lock, known, link, removed, spoilt, requests, failures>>

(* Mutant: the device service knows the device since the scan.             *)
UpsertAtScanOnly(r) ==
    /\ request[r].pc = "upsert"
    /\ Goto(r, IF request[r].sim = NoSim THEN "release" ELSE "getLte")
    /\ UNCHANGED <<device, pairInit, lock, known, link, created, removed, spoilt, requests, failures>>

(* internalDeviceService.upsertDevice; events are published; then the SIM. *)
UpsertDevice(r) ==
    /\ request[r].pc = "upsert"
    /\ known' = known \cup {request[r].mac}
    /\ Goto(r, IF request[r].sim = NoSim THEN "release" ELSE "getLte")
    /\ UNCHANGED <<device, pairInit, lock, link, created, removed, spoilt, requests, failures>>

(* finally releaseLock: DEL, whoever holds it.                             *)
ReleaseLock(r) ==
    /\ request[r].pc = "release"
    /\ lock' = [lock EXCEPT ![request[r].mac] = "free"]
    /\ Goto(r, "idle")
    /\ UNCHANGED <<device, pairInit, known, link, created, removed, spoilt, requests, failures>>

-----------------------------------------------------------------------------
(* LteService.linkDevice, called by pairDevice and setConnectionMethod.    *)
AfterLink(r) == IF request[r].kind = "pair" THEN "release" ELSE "idle"

(* lteTable.getByDeviceId: nothing to do if it is this modem.              *)
GetLte(r) ==
    /\ request[r].pc = "getLte"
    /\ Goto(r, IF <<request[r].id, request[r].sim>> \in link THEN AfterLink(r) ELSE "link")
    /\ UNCHANGED <<device, pairInit, lock, known, link, created, removed, spoilt, requests, failures>>

LinkDevice(r) ==
    /\ request[r].pc = "link"
    /\ link' = link \cup {<<request[r].id, request[r].sim>>}
    /\ Goto(r, AfterLink(r))
    /\ UNCHANGED <<device, pairInit, lock, known, created, removed, spoilt, requests, failures>>

(* setConnectionMethod: LTE, or Wi-Fi after which the link goes (unless    *)
(* the device uses the modem's own network).                               *)
SetConnectionMethod(r, id, sim) ==
    /\ Exists(id)
    /\ Start(r, [kind |-> "connect", pc |-> IF sim = NoSim THEN "unlink" ELSE "getLte",
                 mac |-> device[id].mac, id |-> id, sim |-> sim])
    /\ UNCHANGED <<device, pairInit, lock, known, link, created, removed, failures>>

-----------------------------------------------------------------------------
(* removeDevice of the controller: unlink, remove from the device service, *)
(* then the record.                                                        *)
RemoveDevice(r, id) ==
    /\ Exists(id)
    /\ Start(r, [kind |-> "remove", pc |-> "unlink", mac |-> device[id].mac, id |-> id])
    /\ UNCHANGED <<device, pairInit, lock, known, link, created, removed, failures>>

(* Mutant: the rows stay.                                                  *)
UnlinkNothing(r) ==
    /\ request[r].pc = "unlink"
    /\ Goto(r, IF request[r].kind = "remove" THEN "forget" ELSE "idle")
    /\ UNCHANGED <<device, pairInit, lock, known, link, created, removed, spoilt, requests, failures>>

UnlinkDevice(r) ==
    /\ request[r].pc = "unlink"
    /\ link' = {row \in link : row[1] # request[r].id}
    /\ Goto(r, IF request[r].kind = "remove" THEN "forget" ELSE "idle")
    /\ UNCHANGED <<device, pairInit, lock, known, created, removed, spoilt, requests, failures>>

(* internalDeviceService.removeDevice, whose failure is only logged.       *)
ForgetDevice(r) ==
    /\ request[r].pc = "forget"
    /\ known' = known \ {request[r].mac}
    /\ Goto(r, "delete")
    /\ UNCHANGED <<device, pairInit, lock, link, created, removed, spoilt, requests, failures>>

(* deviceResolver.remove: DynamoDB deletes the record, and the request     *)
(* throws if there was none.                                               *)
DeleteDevice(r) ==
    /\ request[r].pc = "delete"
    /\ device' = [device EXCEPT ![request[r].id] = NoDevice]
    /\ removed' = IF Exists(request[r].id) THEN removed \cup {request[r].id} ELSE removed
    /\ Goto(r, "idle")
    /\ UNCHANGED <<pairInit, lock, known, link, created, spoilt, requests, failures>>

-----------------------------------------------------------------------------
(* transferDevice: remove the record and put it again with the location.   *)
TransferDevice(r, id) ==
    /\ Exists(id)
    /\ Start(r, [kind |-> "transfer", pc |-> "take", mac |-> device[id].mac, id |-> id,
                 record |-> device[id]])
    /\ UNCHANGED <<device, pairInit, lock, known, link, created, removed, failures>>

(* Mutant: that nothing was there to remove goes unnoticed.                *)
TakeRecordIfAny(r) ==
    /\ request[r].pc = "take"
    /\ Goto(r, "put")
    /\ device' = [device EXCEPT ![request[r].id] = NoDevice]
    /\ UNCHANGED <<pairInit, lock, known, link, created, removed, spoilt, requests, failures>>

TakeRecord(r) ==
    /\ request[r].pc = "take"
    /\ Goto(r, IF Exists(request[r].id) THEN "put" ELSE "idle")
    /\ device' = [device EXCEPT ![request[r].id] = NoDevice]
    /\ UNCHANGED <<pairInit, lock, known, link, created, removed, spoilt, requests, failures>>

PutRecord(r) ==
    /\ request[r].pc = "put"
    /\ device' = [device EXCEPT ![request[r].id] = request[r].record]
    /\ Goto(r, "idle")
    /\ UNCHANGED <<pairInit, lock, known, link, created, removed, spoilt, requests, failures>>

-----------------------------------------------------------------------------
(* The lock lives for 60 seconds, however long the pairing takes.          *)
LockExpires(mac) ==
    /\ lock[mac] = "held"
    /\ failures < MaxFailures
    /\ failures' = failures + 1
    /\ lock' = [lock EXCEPT ![mac] = "free"]
    /\ Spoil(mac, IF \E r \in Active(mac) : request[r].kind = "pair" THEN {"lapse"} ELSE {})
    /\ UNCHANGED <<device, pairInit, known, link, request, created, removed, requests>>

(* A call throws, and a pairing releases its lock; or the process stops.   *)
Fail(r) ==
    /\ request[r].pc # "idle"
    /\ failures < MaxFailures
    /\ failures' = failures + 1
    /\ Spoil(request[r].mac, {"failure"})
    /\ \/ Goto(r, AfterLink(r))
       \/ Goto(r, "idle")
    /\ UNCHANGED <<device, pairInit, lock, known, link, created, removed, requests>>

Next ==
    \/ \E mac \in Mac : ScanQrCode(mac) \/ PairInitExpires(mac) \/ LockExpires(mac)
    \/ \E r \in Request :
        \/ \E mac \in Mac, sim \in Sim \cup {NoSim} : AcquireLock(r, mac, sim)
        \/ \E id \in Id :
            \/ \E sim \in Sim \cup {NoSim} : SetConnectionMethod(r, id, sim)
            \/ RemoveDevice(r, id)
            \/ TransferDevice(r, id)
        \/ ReadDevice(r) \/ CreateDevice(r) \/ UpsertDevice(r) \/ ReleaseLock(r)
        \/ GetLte(r) \/ LinkDevice(r)
        \/ UnlinkDevice(r) \/ ForgetDevice(r) \/ DeleteDevice(r)
        \/ TakeRecord(r) \/ PutRecord(r)
        \/ Fail(r)

Spec == Init /\ [][Next]_vars

-----------------------------------------------------------------------------
Quiet == \A r \in Request : request[r].pc = "idle"

(* 'Device already paired.': whatever requests overlap, a MAC address has  *)
(* at most one record, unless the pairing lock expired in use or a pairing *)
(* read between the two steps of a transfer.                               *)
OneRecordPerMac ==
    \A mac \in Mac : spoilt[mac] \cap {"lapse", "transfer"} = {} =>
        \A x, y \in At(mac) : x = y

(* When no request runs, every recorded device is in the internal device   *)
(* service, unless a call failed, a lock expired in use, or a transfer or  *)
(* a second removal ran at the same time: a removal takes the device out   *)
(* of the service while its record still keeps it from being paired again. *)
PairedIsKnown ==
    Quiet => \A id \in Id :
        Exists(id) /\ spoilt[device[id].mac] = {} => device[id].mac \in known

(* When no request runs, every linked SIM belongs to a recorded device,    *)
(* unless a call failed, or the device was removed while it was linked.    *)
LinksHaveDevice ==
    Quiet => \A row \in link, c \in created :
        row[1] = c[1] /\ spoilt[c[2]] \cap {"failure", "removal"} = {} => Exists(c[1])

(* When no request runs, exactly the devices that were removed are gone,   *)
(* whatever overlapped: only a failure in the middle of a transfer loses   *)
(* one, and nothing brings one back.                                       *)
KeptUntilRemoved ==
    Quiet => \A c \in created :
        /\ Exists(c[1]) => c[1] \notin removed
        /\ Exists(c[1]) \/ c[1] \in removed \/ "failure" \in spoilt[c[2]]

=============================================================================
