------------------------ MODULE LocationDevicesProofs ------------------------
(***************************************************************************)
(* For any number of locations, devices and requests that interleave and   *)
(* fail: a location that was marked as merged into another is empty,       *)
(* unless devices were moved to it in turn; a record shows the mode that   *)
(* was last sent, unless two requests worked on the device at a time; and  *)
(* a system mode that was answered with success is everywhere below.       *)
(***************************************************************************)
EXTENDS LocationDevices, TLAPS

LocationType == [state : {"known"}, mode : Mode, merged : BOOLEAN] \cup {Unknown}

DeviceType == [at : Location, mode : Mode] \cup {Gone}

CallType ==
    [pc : {"none", "read", "done", "failed"}]
    \cup [pc : {"work"}, command : SUBSET Device, record : SUBSET Device, failed : BOOLEAN]

StepType == [pc : {"read", "end"}] \cup [pc : {"remove", "put"}, mode : Mode]

RequestType ==
    {Idle}
    \cup [kind : {"mode"}, top : Slot, target : Mode, cascade : BOOLEAN, call : [Slot -> CallType]]
    \cup [kind : {"transfer"}, pc : {"clone"}, src : Location, mode : Mode, merged : BOOLEAN]
    \cup [kind : {"transfer"}, pc : {"move", "done", "failed"}, src : Location, dest : Location,
          step : UNION {[D -> StepType] : D \in SUBSET Device}, failed : BOOLEAN]

TypeOK ==
    /\ location \in [Location -> LocationType]
    /\ device \in [Device -> DeviceType]
    /\ request \in [Request -> RequestType]

IsMoving(r) == request[r].kind = "transfer" /\ request[r].pc = "move"

(* A transfer has read every device at its source; one that is still there *)
(* is ahead of its removal, unless devices were moved to the source.       *)
SourceIsRead ==
    \A r \in Request : IsMoving(r) =>
        \A d \in DevicesAt(request[r].src) :
            \/ request[r].src \in received
            \/ d \in DOMAIN request[r].step /\ request[r].step[d].pc \in {"read", "remove"}

(* A clone, which may bear the mark from the start, holds only devices     *)
(* that were moved to it.                                                  *)
CloneIsFilled == \A l \in Fresh : DevicesAt(l) = {} \/ l \in received

IInv == TypeOK /\ SourceIsRead /\ CloneIsFilled /\ MergedIsEmptied

-----------------------------------------------------------------------------
(* Type correctness.                                                       *)

ModeRequest == [kind : {"mode"}, top : Slot, target : Mode, cascade : BOOLEAN, call : [Slot -> CallType]]

MoveRequest ==
    [kind : {"transfer"}, pc : {"move", "done", "failed"}, src : Location, dest : Location,
     step : UNION {[D -> StepType] : D \in SUBSET Device}, failed : BOOLEAN]

CloneRequest == [kind : {"transfer"}, pc : {"clone"}, src : Location, mode : Mode, merged : BOOLEAN]

LEMMA Fields ==
    ASSUME TypeOK, NEW r \in Request
    PROVE  /\ request[r].kind = "mode" => request[r] \in ModeRequest
           /\ request[r].kind = "transfer" /\ request[r].pc = "clone" => request[r] \in CloneRequest
           /\ IsMoving(r) => request[r] \in MoveRequest
  BY DEF TypeOK, RequestType, Idle, IsMoving, ModeRequest, CloneRequest, MoveRequest

LEMMA RequestCases == RequestType = {Idle} \cup ModeRequest \cup CloneRequest \cup MoveRequest
  BY DEF RequestType, ModeRequest, CloneRequest, MoveRequest

LEMMA DeviceCases ==
    ASSUME TypeOK, NEW d \in Device
    PROVE  /\ Recorded(d) => device[d] \in [at : Location, mode : Mode]
           /\ ~Recorded(d) => device[d] = Gone
  BY DEF TypeOK, DeviceType, Recorded

(* The later of two updates of a call stays.                               *)
Updated(f, g, r, s, state) == g = [f EXCEPT ![r].call[s] = state]

LEMMA Overwrite ==
    ASSUME NEW r \in Request, NEW s \in Slot, NEW a, NEW b, NEW f, NEW g, NEW h,
           f \in [Request -> RequestType], f[r] \in ModeRequest,
           Updated(f, g, r, s, a), Updated(g, h, r, s, b)
    PROVE  Updated(f, h, r, s, b)
<1> USE DEF Updated
<1> DEFINE x == [f[r].call EXCEPT ![s] = a]
           y == [f[r].call EXCEPT ![s] = b]
<1>1. f[r].call \in [Slot -> CallType]
  BY DEF ModeRequest
<1>2. g = [f EXCEPT ![r] = [f[r] EXCEPT !.call = x]]
  OBVIOUS
<1>3. g[r] = [f[r] EXCEPT !.call = x]
  BY <1>2
<1>4. g[r].call = x
  BY <1>3 DEF ModeRequest
<1>5. [x EXCEPT ![s] = b] = y
  BY <1>1
<1>6. h = [g EXCEPT ![r] = [g[r] EXCEPT !.call = [x EXCEPT ![s] = b]]]
  BY <1>4
<1> HIDE DEF x, y
<1>7. [g[r] EXCEPT !.call = y] = [f[r] EXCEPT !.call = y]
  BY <1>3 DEF ModeRequest
<1>8. h = [g EXCEPT ![r] = [f[r] EXCEPT !.call = y]]
  BY <1>5, <1>6, <1>7
<1>9. h = [f EXCEPT ![r] = [f[r] EXCEPT !.call = y]]
  BY <1>2, <1>8
<1> QED
  BY <1>9 DEF y

LEMMA BeginType ==
    ASSUME TypeOK, NEW r \in Request, NEW state \in RequestType, Begin(r, state)
    PROVE  request' \in [Request -> RequestType]
  BY DEF TypeOK, Begin

(* A request for a mode goes on, with the same intent.                     *)
GoesOn(r) ==
    /\ request'[r].kind = "mode" /\ request'[r].top = request[r].top
    /\ request'[r].target = request[r].target /\ request'[r].cascade = request[r].cascade
    /\ \A q \in Request \ {r} : request'[q] = request[q]

LEMMA CallChanged ==
    ASSUME TypeOK, NEW r \in Request, request[r].kind = "mode", NEW call \in [Slot -> CallType],
           request' = [request EXCEPT ![r].call = call]
    PROVE  request' \in [Request -> RequestType] /\ GoesOn(r) /\ request'[r].call = call
<1>1. request[r] \in ModeRequest
  BY Fields
<1> DEFINE new == [request[r] EXCEPT !.call = call]
<1>2. /\ new \in ModeRequest /\ new.kind = "mode" /\ new.call = call
      /\ new.top = request[r].top /\ new.target = request[r].target /\ new.cascade = request[r].cascade
  BY <1>1 DEF ModeRequest
<1>3. request' = [request EXCEPT ![r] = new]
  OBVIOUS
<1> HIDE DEF new
<1>4. request'[r] = new /\ \A q \in Request \ {r} : request'[q] = request[q]
  BY <1>3 DEF TypeOK
<1> QED
  BY <1>2, <1>3, <1>4, RequestCases DEF TypeOK, GoesOn

LEMMA SlotChanged ==
    ASSUME TypeOK, NEW r \in Request, request[r].kind = "mode", NEW s \in Slot, NEW state \in CallType,
           Call(r, s, state)
    PROVE  /\ request' \in [Request -> RequestType] /\ GoesOn(r)
           /\ request'[r].call[s] = state
           /\ \A t \in Slot \ {s} : request'[r].call[t] = request[r].call[t]
<1>1. request[r].call \in [Slot -> CallType]
  BY Fields DEF ModeRequest
<1> DEFINE call == [request[r].call EXCEPT ![s] = state]
<1>2. call \in [Slot -> CallType] /\ call[s] = state /\ \A t \in Slot \ {s} : call[t] = request[r].call[t]
  BY <1>1
<1>3. request' = [request EXCEPT ![r].call = call]
  BY DEF Call
<1> HIDE DEF call
<1> QED
  BY <1>2, <1>3, CallChanged

(* The steps of a system-mode request with one device.                     *)
ForDevice(r, s, d) == Command(r, s, d) \/ Record(r, s, d) \/ CommandFails(r, s, d) \/ RecordFails(r, s, d)

(* Its effect on the call: what is left to do, and whether it failed.      *)
Leaves(state, command, record, failed) ==
    state.pc = "work" /\ state.command = command /\ state.record = record /\ state.failed = failed

WorkType == [pc : {"work"}, command : SUBSET Device, record : SUBSET Device, failed : BOOLEAN]

LEMMA TwoFields ==
    ASSUME NEW c \in WorkType, NEW d, NEW e, e = [c EXCEPT !.command = c.command \ {d}]
    PROVE  [e EXCEPT !.record = e.record \cup {d}] =
              [c EXCEPT !.command = c.command \ {d}, !.record = c.record \cup {d}]
<1>1. e.record = c.record
  BY DEF WorkType
<1> QED
  BY <1>1 DEF WorkType

LEMMA DeviceCall ==
    ASSUME TypeOK, NEW r \in Request, NEW s \in Slot, NEW d \in Device, ForDevice(r, s, d)
    PROVE  LET c == request[r].call[s]
               new == request'[r].call[s]
           IN  /\ request[r].kind = "mode" /\ c \in WorkType
               /\ request' \in [Request -> RequestType] /\ GoesOn(r)
               /\ \A t \in Slot \ {s} : request'[r].call[t] = request[r].call[t]
               /\ Command(r, s, d) => Leaves(new, c.command \ {d}, c.record \cup {d}, c.failed)
               /\ Record(r, s, d) => Leaves(new, c.command, c.record \ {d}, (c.failed \/ ~Recorded(d)))
               /\ CommandFails(r, s, d) => Leaves(new, c.command \ {d}, c.record, TRUE)
               /\ RecordFails(r, s, d) => Leaves(new, c.command, c.record \ {d}, TRUE)
<1> DEFINE c == request[r].call[s]
<1>0. /\ request[r].kind = "mode" /\ c.pc = "work"
      /\ request \in [Request -> RequestType] /\ request[r] \in ModeRequest
      /\ request[r].call \in [Slot -> CallType] /\ c \in WorkType
  <2>1. request[r].kind = "mode" /\ c.pc = "work"
    BY DEF ForDevice, Command, Record, CommandFails, RecordFails
  <2>2. c \in WorkType
    BY <2>1, Fields DEF ModeRequest, CallType, WorkType
  <2> QED
    BY <2>1, <2>2, Fields, SMTT(30) DEF TypeOK, ModeRequest
<1>1. ASSUME Command(r, s, d)
      PROVE  \E state \in CallType : Call(r, s, state) /\ Leaves(state, c.command \ {d}, c.record \cup {d}, c.failed)
  <2> DEFINE state == [c EXCEPT !.command = @ \ {d}, !.record = @ \cup {d}]
  <2>1. state \in CallType /\ Leaves(state, c.command \ {d}, c.record \cup {d}, c.failed)
    BY <1>0 DEF CallType, WorkType, Leaves
  <2> DEFINE f == [request EXCEPT ![r].call[s].command = @ \ {d}]
  <2>2. request' = [f EXCEPT ![r].call[s].record = @ \cup {d}]
    BY <1>1, ZenonT(40) DEF Command
  <2>3. f = [request EXCEPT ![r].call[s] = [c EXCEPT !.command = @ \ {d}]]
    OBVIOUS
  <2>4. f[r].call[s] = [c EXCEPT !.command = @ \ {d}]
    BY <1>0, <2>3 DEF ModeRequest
  <2>5. request' = [f EXCEPT ![r].call[s] = [f[r].call[s] EXCEPT !.record = @ \cup {d}]]
    BY <2>2
  <2>6. [f[r].call[s] EXCEPT !.record = @ \cup {d}] = state
    <3> HIDE DEF f
    <3>1. c \in WorkType
      BY <1>0
    <3> QED
      BY <2>4, <3>1, TwoFields
  <2>7. Updated(request, f, r, s, [c EXCEPT !.command = @ \ {d}])
    BY <2>3 DEF Updated
  <2> HIDE DEF f
  <2>8. Updated(f, request', r, s, state)
    BY <2>5, <2>6 DEF Updated
  <2> HIDE DEF state
  <2>9. Updated(request, request', r, s, state)
    BY <1>0, <2>7, <2>8, Overwrite
  <2>10. Call(r, s, state)
    BY <2>9 DEF Updated, Call
  <2> QED
    BY <2>1, <2>10
<1>2. ASSUME Record(r, s, d)
      PROVE  \E state \in CallType : Call(r, s, state) /\ Leaves(state, c.command, c.record \ {d}, (c.failed \/ ~Recorded(d)))
  <2> DEFINE state == [c EXCEPT !.record = @ \ {d}]
             failed == [c EXCEPT !.record = @ \ {d}, !.failed = TRUE]
  <2>1. /\ state \in CallType /\ Leaves(state, c.command, c.record \ {d}, c.failed)
        /\ failed \in CallType /\ Leaves(failed, c.command, c.record \ {d}, TRUE)
    BY <1>0 DEF CallType, WorkType, Leaves
  <2>2. CASE Recorded(d)
    <3>1. Call(r, s, state)
      BY <1>0, <1>2, <2>2 DEF Record, Call, ModeRequest
    <3>2. (c.failed \/ ~Recorded(d)) = c.failed
      BY <1>0, <2>2 DEF WorkType
    <3> HIDE DEF state, failed
    <3> QED
      BY <2>1, <3>1, <3>2
  <2>3. CASE ~Recorded(d)
    <3> DEFINE f == [request EXCEPT ![r].call[s].record = @ \ {d}]
    <3>3. request' = [f EXCEPT ![r].call[s].failed = TRUE]
      BY <1>2, <2>3 DEF Record
    <3>4. f = [request EXCEPT ![r].call[s] = state]
      OBVIOUS
    <3>5. f[r].call[s] = state
      BY <1>0, <3>4 DEF ModeRequest
    <3>6. request' = [f EXCEPT ![r].call[s] = [f[r].call[s] EXCEPT !.failed = TRUE]]
      BY <3>3
    <3>7. [f[r].call[s] EXCEPT !.failed = TRUE] = failed
      BY <1>0, <3>5 DEF WorkType
    <3>8. Updated(request, f, r, s, state)
      BY <3>4 DEF Updated
    <3> HIDE DEF f
    <3>9. Updated(f, request', r, s, failed)
      BY <3>6, <3>7 DEF Updated
    <3> HIDE DEF state, failed
    <3>10. Updated(request, request', r, s, failed)
      BY <1>0, <3>8, <3>9, Overwrite
    <3>1. Call(r, s, failed)
      BY <3>10 DEF Updated, Call
    <3>2. (c.failed \/ ~Recorded(d)) = TRUE
      BY <1>0, <2>3
    <3> HIDE DEF state, failed
    <3> QED
      BY <2>1, <3>1, <3>2
  <2> QED
    BY <2>2, <2>3
<1>3. ASSUME CommandFails(r, s, d)
      PROVE  \E state \in CallType : Call(r, s, state) /\ Leaves(state, c.command \ {d}, c.record, TRUE)
  <2> DEFINE state == [c EXCEPT !.command = @ \ {d}, !.failed = TRUE]
  <2>1. state \in CallType /\ Leaves(state, c.command \ {d}, c.record, TRUE)
    BY <1>0 DEF CallType, WorkType, Leaves
  <2> DEFINE f == [request EXCEPT ![r].call[s].command = @ \ {d}]
  <2>2. request' = [f EXCEPT ![r].call[s].failed = TRUE]
    BY <1>3 DEF CommandFails
  <2>3. f = [request EXCEPT ![r].call[s] = [c EXCEPT !.command = @ \ {d}]]
    OBVIOUS
  <2>4. f[r].call[s] = [c EXCEPT !.command = @ \ {d}]
    BY <1>0, <2>3 DEF ModeRequest
  <2>5. request' = [f EXCEPT ![r].call[s] = [f[r].call[s] EXCEPT !.failed = TRUE]]
    BY <2>2
  <2>6. [f[r].call[s] EXCEPT !.failed = TRUE] = state
    BY <1>0, <2>4 DEF WorkType
  <2>7. Updated(request, f, r, s, [c EXCEPT !.command = @ \ {d}])
    BY <2>3 DEF Updated
  <2> HIDE DEF f
  <2>8. Updated(f, request', r, s, state)
    BY <2>5, <2>6 DEF Updated
  <2> HIDE DEF state
  <2>9. Updated(request, request', r, s, state)
    BY <1>0, <2>7, <2>8, Overwrite
  <2>10. Call(r, s, state)
    BY <2>9 DEF Updated, Call
  <2> QED
    BY <2>1, <2>10
<1>4. ASSUME RecordFails(r, s, d)
      PROVE  \E state \in CallType : Call(r, s, state) /\ Leaves(state, c.command, c.record \ {d}, TRUE)
  <2> DEFINE state == [c EXCEPT !.record = @ \ {d}, !.failed = TRUE]
  <2>1. state \in CallType /\ Leaves(state, c.command, c.record \ {d}, TRUE)
    BY <1>0 DEF CallType, WorkType, Leaves
  <2> DEFINE f == [request EXCEPT ![r].call[s].record = @ \ {d}]
  <2>2. request' = [f EXCEPT ![r].call[s].failed = TRUE]
    BY <1>4 DEF RecordFails
  <2>3. f = [request EXCEPT ![r].call[s] = [c EXCEPT !.record = @ \ {d}]]
    OBVIOUS
  <2>4. f[r].call[s] = [c EXCEPT !.record = @ \ {d}]
    BY <1>0, <2>3 DEF ModeRequest
  <2>5. request' = [f EXCEPT ![r].call[s] = [f[r].call[s] EXCEPT !.failed = TRUE]]
    BY <2>2
  <2>6. [f[r].call[s] EXCEPT !.failed = TRUE] = state
    BY <1>0, <2>4 DEF WorkType
  <2>7. Updated(request, f, r, s, [c EXCEPT !.record = @ \ {d}])
    BY <2>3 DEF Updated
  <2> HIDE DEF f
  <2>8. Updated(f, request', r, s, state)
    BY <2>5, <2>6 DEF Updated
  <2> HIDE DEF state
  <2>9. Updated(request, request', r, s, state)
    BY <1>0, <2>7, <2>8, Overwrite
  <2>10. Call(r, s, state)
    BY <2>9 DEF Updated, Call
  <2> QED
    BY <2>1, <2>10
<1> DEFINE new == request'[r].call[s]
<1>5. ASSUME NEW state \in CallType, Call(r, s, state)
      PROVE  /\ request' \in [Request -> RequestType] /\ GoesOn(r) /\ new = state
             /\ \A t \in Slot \ {s} : request'[r].call[t] = request[r].call[t]
  BY <1>0, <1>5, SlotChanged
<1>6. PICK state \in CallType : Call(r, s, state)
  BY <1>1, <1>2, <1>3, <1>4 DEF ForDevice
<1>7. /\ request' \in [Request -> RequestType] /\ GoesOn(r)
      /\ \A t \in Slot \ {s} : request'[r].call[t] = request[r].call[t]
  BY <1>5, <1>6
<1>8. Command(r, s, d) => Leaves(new, c.command \ {d}, c.record \cup {d}, c.failed)
  BY <1>1, <1>5
<1>9. Record(r, s, d) => Leaves(new, c.command, c.record \ {d}, (c.failed \/ ~Recorded(d)))
  BY <1>2, <1>5
<1>10. CommandFails(r, s, d) => Leaves(new, c.command \ {d}, c.record, TRUE)
  BY <1>3, <1>5
<1>11. RecordFails(r, s, d) => Leaves(new, c.command, c.record \ {d}, TRUE)
  BY <1>4, <1>5
<1> QED
  BY <1>0, <1>7, <1>8, <1>9, <1>10, <1>11

(* What a step of a system-mode request does to the requests.              *)
LEMMA ModeStep ==
    ASSUME TypeOK, NEW r \in Request,
           \/ \E l \in Location : ReadDevices(r, l)
           \/ \E s \in Slot : SaveMode(r, s) \/ \E d \in Device : ForDevice(r, s, d)
    PROVE  /\ request' \in [Request -> RequestType]
           /\ request[r].kind = "mode" /\ GoesOn(r)
<1>1. ASSUME NEW l \in Location, ReadDevices(r, l)
      PROVE  /\ request' \in [Request -> RequestType]
             /\ request[r].kind = "mode" /\ GoesOn(r)
  <2>1. request[r].kind = "mode" /\ l \in Slot
    BY <1>1 DEF ReadDevices, Slot
  <2>2. CASE Call(r, l, [pc |-> "failed"])
    <3>1. [pc |-> "failed"] \in CallType
      BY DEF CallType
    <3> QED
      BY <2>1, <2>2, <3>1, SlotChanged
  <2>3. CASE ~Call(r, l, [pc |-> "failed"])
    <3> DEFINE devices == DevicesAt(l) \ locked
               call == [s \in Slot |-> IF s \in Called(r, l) THEN Reading
                                       ELSE IF s = l THEN Working(devices) ELSE request[r].call[s]]
    <3>1. request[r].call \in [Slot -> CallType]
      BY <2>1, Fields DEF ModeRequest
    <3>2. Reading \in CallType /\ Working(devices) \in CallType
      BY DEF CallType, Reading, Working, DevicesAt
    <3>3. call \in [Slot -> CallType]
      BY <3>1, <3>2
    <3>4. request' = [request EXCEPT ![r].call = call]
      BY <1>1, <2>3 DEF ReadDevices
    <3> HIDE DEF call
    <3> QED
      BY <2>1, <3>3, <3>4, CallChanged
  <2> QED
    BY <2>2, <2>3
<1>2. ASSUME NEW s \in Slot, SaveMode(r, s)
      PROVE  /\ request' \in [Request -> RequestType]
             /\ request[r].kind = "mode" /\ GoesOn(r)
  <2>1. request[r].kind = "mode" /\ (Call(r, s, [pc |-> "failed"]) \/ Call(r, s, [pc |-> "done"]))
    BY <1>2 DEF SaveMode
  <2>2. [pc |-> "failed"] \in CallType /\ [pc |-> "done"] \in CallType
    BY DEF CallType
  <2> QED
    BY <2>1, <2>2, SlotChanged
<1>3. ASSUME NEW s \in Slot, NEW d \in Device, ForDevice(r, s, d)
      PROVE  /\ request' \in [Request -> RequestType]
             /\ request[r].kind = "mode" /\ GoesOn(r)
  BY <1>3, DeviceCall
<1> QED
  BY <1>1, <1>2, <1>3

(* What a step of a transfer does to the progress of a device.             *)
LEMMA StepChanged ==
    ASSUME TypeOK, NEW r \in Request, NEW d \in Device, IsMoving(r), d \in DOMAIN request[r].step,
           NEW state \in StepType,
           Step(r, d, state) \/ (Reject(r, d) /\ state = [pc |-> "end"])
    PROVE  /\ request' \in [Request -> RequestType]
           /\ \A q \in Request \ {r} : request'[q] = request[q]
           /\ IsMoving(r)' /\ request'[r].src = request[r].src
           /\ DOMAIN request'[r].step = DOMAIN request[r].step
           /\ request'[r].step[d] = state
           /\ \A e \in DOMAIN request[r].step \ {d} : request'[r].step[e] = request[r].step[e]
<1>1. request[r] \in MoveRequest
  BY Fields
<1> DEFINE step == [request[r].step EXCEPT ![d] = state]
<1>2. PICK D \in SUBSET Device : request[r].step \in [D -> StepType]
  BY <1>1 DEF MoveRequest
<1>3. step \in [D -> StepType]
  BY <1>2
<1>4. /\ DOMAIN step = DOMAIN request[r].step /\ step[d] = state
      /\ \A e \in DOMAIN request[r].step \ {d} : step[e] = request[r].step[e]
  BY <1>2
<1>5. step \in UNION {[E -> StepType] : E \in SUBSET Device}
  BY <1>3
<1>6. \E rest \in {[request[r] EXCEPT !.step = step], [request[r] EXCEPT !.step = step, !.failed = TRUE]} :
         request' = [request EXCEPT ![r] = rest]
  <2>1. CASE Step(r, d, state)
    BY <2>1 DEF Step
  <2>2. CASE Reject(r, d) /\ state = [pc |-> "end"]
    <3> DEFINE f == [request EXCEPT ![r].step[d] = state]
               mid == [request[r] EXCEPT !.step = step]
    <3>1. request' = [f EXCEPT ![r].failed = TRUE]
      BY <2>2 DEF Reject
    <3>2. f = [request EXCEPT ![r] = mid]
      OBVIOUS
    <3>3. f[r] = mid
      BY <3>2 DEF TypeOK
    <3>4. request' = [f EXCEPT ![r] = [f[r] EXCEPT !.failed = TRUE]]
      BY <3>1
    <3> HIDE DEF f
    <3>5. request' = [f EXCEPT ![r] = [mid EXCEPT !.failed = TRUE]]
      BY <3>3, <3>4
    <3> HIDE DEF mid
    <3>6. request' = [request EXCEPT ![r] = [mid EXCEPT !.failed = TRUE]]
      BY <3>2, <3>5
    <3> QED
      BY <3>6 DEF mid
  <2> QED
    BY <2>1, <2>2
<1> HIDE DEF step
<1>7. PICK rest : /\ request' = [request EXCEPT ![r] = rest]
                  /\ rest \in MoveRequest /\ rest.pc = request[r].pc /\ rest.src = request[r].src /\ rest.step = step
  <2> DEFINE left == [request[r] EXCEPT !.step = step]
             lost == [left EXCEPT !.failed = TRUE]
  <2>1. left \in MoveRequest /\ left.pc = request[r].pc /\ left.src = request[r].src /\ left.step = step
    BY <1>1, <1>5 DEF MoveRequest
  <2> HIDE DEF left
  <2>2. lost \in MoveRequest /\ lost.pc = request[r].pc /\ lost.src = request[r].src /\ lost.step = step
    BY <2>1 DEF MoveRequest
  <2>3. request' = [request EXCEPT ![r] = left] \/ request' = [request EXCEPT ![r] = lost]
    BY <1>6 DEF left
  <2> QED
    BY <2>1, <2>2, <2>3
<1>8. request'[r] = rest /\ \A q \in Request \ {r} : request'[q] = request[q]
  BY <1>7 DEF TypeOK
<1>9. request' \in [Request -> RequestType]
  BY <1>7, RequestCases DEF TypeOK
<1>10. IsMoving(r)'
  BY <1>7, <1>8 DEF IsMoving, MoveRequest
<1> QED
  BY <1>4, <1>7, <1>8, <1>9, <1>10

LEMMA MovingType ==
    ASSUME TypeOK, NEW src \in Location, NEW dest \in Location
    PROVE  /\ Moving(src, dest, DevicesAt(src)) \in MoveRequest
           /\ Moving(src, dest, DevicesAt(src)).src = src
           /\ DOMAIN Moving(src, dest, DevicesAt(src)).step = DevicesAt(src)
           /\ \A d \in DevicesAt(src) : Moving(src, dest, DevicesAt(src)).step[d].pc = "read"
<1>1. [d \in DevicesAt(src) |-> [pc |-> "read"]] \in [DevicesAt(src) -> StepType]
  BY DEF StepType
<1>2. DevicesAt(src) \in SUBSET Device
  BY DEF DevicesAt
<1>3. [d \in DevicesAt(src) |-> [pc |-> "read"]] \in UNION {[D -> StepType] : D \in SUBSET Device}
  BY <1>1, <1>2
<1> QED
  BY <1>3 DEF Moving, MoveRequest

(* What a transfer does to the requests, device by device.                 *)
LEMMA TransferStep ==
    ASSUME TypeOK, NEW r \in Request, NEW d \in Device,
           ReadRecord(r, d) \/ RemoveRecord(r, d) \/ PutRecord(r, d) \/ PutFails(r, d)
    PROVE  /\ request' \in [Request -> RequestType]
           /\ \A q \in Request \ {r} : request'[q] = request[q]
           /\ IsMoving(r) /\ IsMoving(r)' /\ request'[r].src = request[r].src
           /\ DOMAIN request'[r].step = DOMAIN request[r].step
           /\ \A e \in DOMAIN request[r].step \ {d} : request'[r].step[e] = request[r].step[e]
           /\ \/ request'[r].step[d].pc \in {"read", "remove"} \/ ~Recorded(d)'
              \/ PutRecord(r, d) \/ PutFails(r, d)
<1>1. IsMoving(r) /\ d \in DOMAIN request[r].step
  BY DEF ReadRecord, RemoveRecord, PutRecord, PutFails, AtStep, IsMoving
<1>2. [pc |-> "end"] \in StepType
  BY DEF StepType
<1>3. CASE ReadRecord(r, d)
  <2>1. CASE Recorded(d)
    <3>1. Step(r, d, [pc |-> "remove", mode |-> device[d].mode]) /\ device' = device
      BY <1>3, <2>1 DEF ReadRecord
    <3>2. [pc |-> "remove", mode |-> device[d].mode] \in StepType
      BY <2>1, DeviceCases DEF StepType
    <3> QED
      BY <1>1, <3>1, <3>2, StepChanged
  <2>2. CASE ~Recorded(d)
    <3>1. Reject(r, d) /\ device' = device
      BY <1>3, <2>2 DEF ReadRecord
    <3> QED
      BY <1>1, <1>2, <2>2, <3>1, StepChanged DEF Recorded
  <2> QED
    BY <2>1, <2>2
<1>4. CASE RemoveRecord(r, d)
  <2>1. CASE Recorded(d)
    <3>1. Step(r, d, [request[r].step[d] EXCEPT !.pc = "put"]) /\ device' = [device EXCEPT ![d] = Gone]
      BY <1>4, <2>1 DEF RemoveRecord
    <3>2. request[r].step[d] \in [pc : {"remove", "put"}, mode : Mode]
      BY <1>1, <1>4, Fields DEF RemoveRecord, AtStep, MoveRequest, StepType
    <3>3. [request[r].step[d] EXCEPT !.pc = "put"] \in StepType
      BY <3>2 DEF StepType
    <3>4. ~Recorded(d)'
      BY <3>1 DEF Recorded, TypeOK
    <3> QED
      BY <1>1, <3>1, <3>3, <3>4, StepChanged
  <2>2. CASE ~Recorded(d)
    <3>1. Reject(r, d) /\ device' = device
      BY <1>4, <2>2 DEF RemoveRecord
    <3> QED
      BY <1>1, <1>2, <2>2, <3>1, StepChanged DEF Recorded
  <2> QED
    BY <2>1, <2>2
<1>5. CASE PutRecord(r, d) \/ PutFails(r, d)
  <2>1. Step(r, d, [pc |-> "end"]) \/ Reject(r, d)
    BY <1>5 DEF PutRecord, PutFails
  <2> QED
    BY <1>1, <1>2, <1>5, <2>1, StepChanged
<1> QED
  BY <1>3, <1>4, <1>5

(* A missing field is not added.                                           *)
LEMMA UnknownStays ==
    ASSUME NEW m
    PROVE  [Unknown EXCEPT !.mode = m] = Unknown /\ [Unknown EXCEPT !.merged = m] = Unknown
<1>1. Unknown = [x \in {"state"} |-> "none"]
  BY SMT DEF Unknown
<1>2. [Unknown EXCEPT !.mode = m] = Unknown
  <2> DEFINE g == [Unknown EXCEPT !.mode = m]
  <2>1. DOMAIN g = {"state"} /\ g["state"] = "none"
    BY Zenon DEF Unknown
  <2>2. g = [x \in DOMAIN g |-> g[x]]
    BY Zenon
  <2> QED
    BY <1>1, <2>1, <2>2, Zenon
<1>3. [Unknown EXCEPT !.merged = m] = Unknown
  <2> DEFINE g == [Unknown EXCEPT !.merged = m]
  <2>1. DOMAIN g = {"state"} /\ g["state"] = "none"
    BY Zenon DEF Unknown
  <2>2. g = [x \in DOMAIN g |-> g[x]]
    BY Zenon
  <2> QED
    BY <1>1, <2>1, <2>2, Zenon
<1> QED
  BY <1>2, <1>3

-----------------------------------------------------------------------------
(* What each action leaves alone.                                          *)
Still == location' = location /\ device' = device /\ received' = received

LEMMA Frames ==
    ASSUME NEW r \in Request
    PROVE  /\ \A l \in Location, m \in Mode, c \in BOOLEAN : SetSystemMode(r, l, m, c) => Still
           /\ \A d \in Device, m \in Mode : SetDeviceSystemMode(r, d, m) => Still
           /\ \A src, dest \in Location : TransferDevices(r, src, dest) => Still
           /\ \A src \in Location : TransferLocation(r, src) => Still
           /\ \A l \in Location : ReadDevices(r, l) => Still
           /\ \A s \in Slot, d \in Device :
                 Command(r, s, d) \/ CommandFails(r, s, d) \/ RecordFails(r, s, d) => Still
           /\ \A s \in Slot, d \in Device : Record(r, s, d) => location' = location
           /\ \A s \in Slot : SaveMode(r, s) => device' = device /\ received' = received
           /\ \A d \in Device : ReadRecord(r, d) \/ PutFails(r, d) => Still
           /\ \A d \in Device : RemoveRecord(r, d) \/ PutRecord(r, d) => location' = location
           /\ CloneLocation(r) \/ MarkMerged(r) => device' = device /\ received' = received
<1>1. \A l \in Location, m \in Mode, c \in BOOLEAN : SetSystemMode(r, l, m, c) => Still
  BY DEF SetSystemMode, Still
<1>2. \A d \in Device, m \in Mode : SetDeviceSystemMode(r, d, m) => Still
  BY DEF SetDeviceSystemMode, Still
<1>3. \A src, dest \in Location : TransferDevices(r, src, dest) => Still
  BY DEF TransferDevices, Still
<1>4. \A src \in Location : TransferLocation(r, src) => Still
  BY DEF TransferLocation, Still
<1>5. \A l \in Location : ReadDevices(r, l) => Still
  BY SMTT(30) DEF ReadDevices, Still
<1>6. \A s \in Slot, d \in Device :
         Command(r, s, d) \/ CommandFails(r, s, d) \/ RecordFails(r, s, d) => Still
  BY DEF Command, CommandFails, RecordFails, Still
<1>7. \A s \in Slot, d \in Device : Record(r, s, d) => location' = location
  BY DEF Record
<1>8. \A s \in Slot : SaveMode(r, s) => device' = device /\ received' = received
  BY DEF SaveMode
<1>9. \A d \in Device : ReadRecord(r, d) \/ PutFails(r, d) => Still
  BY DEF ReadRecord, PutFails, Still
<1>10. \A d \in Device : RemoveRecord(r, d) \/ PutRecord(r, d) => location' = location
  BY DEF RemoveRecord, PutRecord
<1>11. CloneLocation(r) \/ MarkMerged(r) => device' = device /\ received' = received
  BY DEF CloneLocation, MarkMerged
<1> QED
  BY <1>1, <1>2, <1>3, <1>4, <1>5, <1>6, <1>7, <1>8, <1>9, <1>10, <1>11

LEMMA LockFrame == ASSUME NEW d \in Device, Lock(d) PROVE Still /\ request' = request
  BY DEF Lock, Still

-----------------------------------------------------------------------------
(* What a step does to the locations: only MarkMerged makes one merged,    *)
(* except a clone.                                                         *)
LEMMA LocationStep ==
    ASSUME TypeOK, [Next]_vars
    PROVE  /\ location' \in [Location -> LocationType]
           /\ \A l \in Location : Known(l)' /\ location'[l].merged =>
                 \/ l \in Fresh
                 \/ Known(l) /\ location[l].merged
                 \/ \E r \in Request : MarkMerged(r) /\ ~request[r].failed /\ request[r].src = l
<1> DEFINE Goal == /\ location' \in [Location -> LocationType]
                   /\ \A l \in Location : Known(l)' /\ location'[l].merged =>
                         \/ l \in Fresh
                         \/ Known(l) /\ location[l].merged
                         \/ \E r \in Request : MarkMerged(r) /\ ~request[r].failed /\ request[r].src = l
<1>1. location' = location => Goal
  BY DEF TypeOK, Known
<1>2. ASSUME NEW r \in Request, NEW s \in Slot, SaveMode(r, s)
      PROVE  Goal
  <2>1. SUFFICES ASSUME s # Direct, location' = [location EXCEPT ![s].mode = request[r].target]
                 PROVE  Goal
    BY <1>1, <1>2 DEF SaveMode
  <2>2. s \in Location /\ request[r].target \in Mode
    BY <1>2, <2>1, Fields DEF SaveMode, Slot, ModeRequest
  <2> DEFINE new == [location[s] EXCEPT !.mode = request[r].target]
  <2>3. location' = [location EXCEPT ![s] = new]
    BY <2>1
  <2>4. new \in LocationType /\ (new # Unknown => Known(s) /\ new.merged = location[s].merged)
    <3>1. CASE Known(s)
      BY <2>2, <3>1 DEF TypeOK, LocationType, Known
    <3>2. CASE ~Known(s)
      BY <3>2, UnknownStays DEF Known, LocationType
    <3> QED
      BY <3>1, <3>2
  <2> HIDE DEF new
  <2> QED
    BY <2>2, <2>3, <2>4 DEF TypeOK, Known
<1>3. ASSUME NEW r \in Request, CloneLocation(r)
      PROVE  Goal
  <2> DEFINE new == [state |-> "known", mode |-> request[r].mode, merged |-> request[r].merged]
  <2>1. new \in LocationType /\ CloneId[r] \in Fresh
    BY <1>3, Fields DEF CloneLocation, CloneRequest, LocationType, Fresh
  <2>2. location' = [location EXCEPT ![CloneId[r]] = new]
    BY <1>3 DEF CloneLocation
  <2> HIDE DEF new
  <2> QED
    BY <2>1, <2>2 DEF TypeOK, Known
<1>4. ASSUME NEW r \in Request, MarkMerged(r)
      PROVE  Goal
  <2>1. SUFFICES ASSUME ~request[r].failed, location' = [location EXCEPT ![request[r].src].merged = TRUE]
                 PROVE  Goal
    BY <1>1, <1>4 DEF MarkMerged
  <2> DEFINE src == request[r].src
             new == [location[src] EXCEPT !.merged = TRUE]
  <2>2. src \in Location
    BY <1>4, Fields DEF MarkMerged, IsMoving, MoveRequest
  <2>3. location' = [location EXCEPT ![src] = new]
    BY <2>1
  <2>4. new \in LocationType
    <3>1. CASE Known(src)
      BY <2>2, <3>1 DEF TypeOK, LocationType, Known
    <3>2. CASE ~Known(src)
      BY <3>2, UnknownStays DEF Known, LocationType
    <3> QED
      BY <3>1, <3>2
  <2> HIDE DEF new
  <2> QED
    BY <1>4, <2>1, <2>2, <2>3, <2>4 DEF TypeOK, Known
<1>5. \/ location' = location
      \/ \E r \in Request : CloneLocation(r) \/ MarkMerged(r) \/ \E s \in Slot : SaveMode(r, s)
  BY Frames, LockFrame, Zenon DEF Next, Work, vars, Still
<1> QED
  BY <1>1, <1>2, <1>3, <1>4, <1>5

(* What a step does to the devices: one is at a location it was not at     *)
(* only after it was moved there.                                          *)
LEMMA DeviceStep ==
    ASSUME TypeOK, [Next]_vars
    PROVE  /\ device' \in [Device -> DeviceType]
           /\ received \subseteq received'
           /\ \A l \in Location : l \in received' \/ DevicesAt(l)' \subseteq DevicesAt(l)
<1> DEFINE Goal == /\ device' \in [Device -> DeviceType]
                   /\ received \subseteq received'
                   /\ \A l \in Location : l \in received' \/ DevicesAt(l)' \subseteq DevicesAt(l)
<1>1. device' = device /\ received' = received => Goal
  BY DEF TypeOK, DevicesAt, Recorded
<1>2. ASSUME NEW r \in Request, NEW s \in Slot, NEW d \in Device, Record(r, s, d)
      PROVE  Goal
  <2>1. SUFFICES ASSUME Recorded(d), device' = [device EXCEPT ![d].mode = request[r].target],
                        received' = received
                 PROVE  Goal
    BY <1>1, <1>2 DEF Record
  <2> DEFINE new == [device[d] EXCEPT !.mode = request[r].target]
  <2>2. device' = [device EXCEPT ![d] = new]
    BY <2>1
  <2>3. request[r].target \in Mode
    BY <1>2, Fields DEF Record, ModeRequest
  <2>4. new \in DeviceType /\ new.at = device[d].at
    BY <2>1, <2>3, DeviceCases DEF DeviceType
  <2> HIDE DEF new
  <2> QED
    BY <2>1, <2>2, <2>4 DEF TypeOK, DevicesAt, Recorded
<1>3. ASSUME NEW r \in Request, NEW d \in Device, RemoveRecord(r, d)
      PROVE  Goal
  <2>1. SUFFICES ASSUME device' = [device EXCEPT ![d] = Gone], received' = received
                 PROVE  Goal
    BY <1>1, <1>3 DEF RemoveRecord
  <2>2. Gone \in DeviceType
    BY DEF DeviceType
  <2> QED
    BY <2>1, <2>2 DEF TypeOK, DevicesAt, Recorded
<1>4. ASSUME NEW r \in Request, NEW d \in Device, PutRecord(r, d)
      PROVE  Goal
  <2> DEFINE new == [at |-> request[r].dest, mode |-> request[r].step[d].mode]
  <2>1. device' = [device EXCEPT ![d] = new] /\ received' = received \cup {request[r].dest}
    BY <1>4 DEF PutRecord
  <2>2. request[r].step[d].mode \in Mode /\ request[r].dest \in Location
    BY <1>4, Fields DEF PutRecord, AtStep, IsMoving, MoveRequest, StepType
  <2>3. new \in DeviceType /\ new.at \in received'
    BY <2>1, <2>2 DEF DeviceType
  <2> HIDE DEF new
  <2> QED
    BY <2>1, <2>3 DEF TypeOK, DevicesAt, Recorded
<1>5. \/ device' = device /\ received' = received
      \/ \E r \in Request, d \in Device : \/ RemoveRecord(r, d) \/ PutRecord(r, d)
                                          \/ \E s \in Slot : Record(r, s, d)
  BY Frames, LockFrame, Zenon DEF Next, Work, vars, Still
<1> QED
  BY <1>1, <1>2, <1>3, <1>4, <1>5

-----------------------------------------------------------------------------
(* What a step does to the requests: a transfer that is moving devices     *)
(* afterwards did nothing, took a step with a device, or has just read the *)
(* devices of its source.                                                  *)
Moves(q) == \E d \in Device : ReadRecord(q, d) \/ RemoveRecord(q, d) \/ PutRecord(q, d) \/ PutFails(q, d)

HasRead(q) ==
    /\ device' = device
    /\ DOMAIN request'[q].step = DevicesAt(request'[q].src)
    /\ \A d \in DevicesAt(request'[q].src) : request'[q].step[d].pc = "read"

LEMMA RequestStep ==
    ASSUME TypeOK, [Next]_vars
    PROVE  /\ request' \in [Request -> RequestType]
           /\ \A q \in Request : IsMoving(q)' => request'[q] = request[q] \/ Moves(q) \/ HasRead(q)
<1> DEFINE Goal == /\ request' \in [Request -> RequestType]
                   /\ \A q \in Request : IsMoving(q)' => request'[q] = request[q] \/ Moves(q) \/ HasRead(q)
<1>1. request' = request => Goal
  BY DEF TypeOK
<1>2. ASSUME NEW r \in Request, NEW state \in RequestType, Begin(r, state), state.kind = "mode"
      PROVE  Goal
  BY <1>2, BeginType DEF Begin, TypeOK, IsMoving
<1>3. ASSUME NEW r \in Request, NEW l \in Location, NEW m \in Mode, NEW c \in BOOLEAN,
             SetSystemMode(r, l, m, c)
      PROVE  Goal
  <2> DEFINE call == [s \in Slot |-> IF s = l THEN Reading ELSE NoCall]
             state == [kind |-> "mode", top |-> l, target |-> m, cascade |-> c, call |-> call]
  <2>1. call \in [Slot -> CallType] /\ l \in Slot
    BY DEF Reading, NoCall, CallType, Slot
  <2> HIDE DEF call
  <2>2. state \in ModeRequest
    BY <2>1 DEF ModeRequest
  <2>3. state \in RequestType /\ state.kind = "mode"
    BY <2>2, RequestCases
  <2>4. Begin(r, state)
    BY <1>3 DEF SetSystemMode, call
  <2> HIDE DEF state
  <2> QED
    BY <1>2, <2>3, <2>4
<1>4. ASSUME NEW r \in Request, NEW d \in Device, NEW m \in Mode, SetDeviceSystemMode(r, d, m)
      PROVE  Goal
  <2> DEFINE call == [s \in Slot |-> IF s = Direct THEN Working({d}) ELSE NoCall]
             state == [kind |-> "mode", top |-> Direct, target |-> m, cascade |-> FALSE, call |-> call]
  <2>1. call \in [Slot -> CallType] /\ Direct \in Slot
    BY DEF Working, NoCall, CallType, Slot
  <2> HIDE DEF call
  <2>2. state \in ModeRequest
    BY <2>1 DEF ModeRequest
  <2>3. state \in RequestType /\ state.kind = "mode"
    BY <2>2, RequestCases
  <2>4. Begin(r, state)
    BY <1>4 DEF SetDeviceSystemMode, call
  <2> HIDE DEF state
  <2> QED
    BY <1>2, <2>3, <2>4
<1>5. ASSUME NEW r \in Request, NEW src \in Location, NEW dest \in Location, device' = device,
             request' = [request EXCEPT ![r] = Moving(src, dest, DevicesAt(src))]
      PROVE  Goal
  <2> DEFINE state == Moving(src, dest, DevicesAt(src))
  <2>1. /\ state \in RequestType /\ state.src = src /\ DOMAIN state.step = DevicesAt(src)
        /\ \A d \in DevicesAt(src) : state.step[d].pc = "read"
    BY MovingType, RequestCases
  <2>2. request' = [request EXCEPT ![r] = state]
    BY <1>5
  <2> HIDE DEF state
  <2> QED
    BY <1>5, <2>1, <2>2 DEF TypeOK, HasRead
<1>6. ASSUME NEW r \in Request, NEW src \in Location, NEW dest \in Location, TransferDevices(r, src, dest)
      PROVE  Goal
  BY <1>5, <1>6 DEF TransferDevices, Begin
<1>7. ASSUME NEW r \in Request, CloneLocation(r)
      PROVE  Goal
  <2>1. request[r].src \in Location /\ CloneId[r] \in Location
    BY <1>7, Fields, LocationDevicesAssumption DEF CloneLocation, CloneRequest
  <2>2. device' = device
        /\ request' = [request EXCEPT ![r] = Moving(request[r].src, CloneId[r], DevicesAt(request[r].src))]
    BY <1>7 DEF CloneLocation
  <2> QED
    BY <1>5, <2>1, <2>2
<1>8. ASSUME NEW r \in Request, NEW src \in Location, TransferLocation(r, src)
      PROVE  Goal
  <2> DEFINE state == [kind |-> "transfer", pc |-> "clone", src |-> src,
                       mode |-> location[src].mode, merged |-> location[src].merged]
  <2>1. state \in CloneRequest
    BY <1>8 DEF TransferLocation, Known, TypeOK, LocationType, CloneRequest
  <2>2. state \in RequestType /\ state.pc = "clone"
    BY <2>1, RequestCases
  <2>3. Begin(r, state)
    BY <1>8 DEF TransferLocation
  <2> HIDE DEF state
  <2> QED
    BY <2>2, <2>3, BeginType DEF Begin, TypeOK, IsMoving
<1>9. ASSUME NEW r \in Request, MarkMerged(r)
      PROVE  Goal
  <2> DEFINE pc == IF request[r].failed THEN "failed" ELSE "done"
             state == [request[r] EXCEPT !.pc = pc]
  <2>1. request[r] \in MoveRequest
    BY <1>9, Fields DEF MarkMerged, IsMoving
  <2>2. state \in MoveRequest /\ state.pc # "move"
    BY <2>1 DEF MoveRequest
  <2>3. request' = [request EXCEPT ![r] = state]
    BY <1>9 DEF MarkMerged
  <2> HIDE DEF state
  <2> QED
    BY <2>2, <2>3, RequestCases DEF TypeOK, IsMoving
<1>10. ASSUME NEW r \in Request,
              \/ \E l \in Location : ReadDevices(r, l)
              \/ \E s \in Slot : SaveMode(r, s) \/ \E d \in Device : ForDevice(r, s, d)
       PROVE  Goal
  <2>1. request' \in [Request -> RequestType] /\ request'[r].kind = "mode"
        /\ \A q \in Request \ {r} : request'[q] = request[q]
    BY <1>10, ModeStep, Zenon DEF GoesOn
  <2> QED
    BY <2>1 DEF IsMoving
<1>11. ASSUME NEW r \in Request, Moves(r)
       PROVE  Goal
  <2>1. request' \in [Request -> RequestType] /\ \A q \in Request \ {r} : request'[q] = request[q]
    BY <1>11, TransferStep DEF Moves
  <2> QED
    BY <1>11, <2>1
<1>12. \/ request' = request
       \/ \E r \in Request :
            \/ \E l \in Location, m \in Mode, c \in BOOLEAN : SetSystemMode(r, l, m, c)
            \/ \E d \in Device, m \in Mode : SetDeviceSystemMode(r, d, m)
            \/ \E src, dest \in Location : TransferDevices(r, src, dest)
            \/ \E src \in Location : TransferLocation(r, src)
            \/ CloneLocation(r) \/ MarkMerged(r) \/ Moves(r)
            \/ \E l \in Location : ReadDevices(r, l)
            \/ \E s \in Slot : SaveMode(r, s) \/ \E d \in Device : ForDevice(r, s, d)
  BY LockFrame, Zenon DEF Next, Work, Moves, ForDevice, vars
<1>13. SUFFICES ASSUME request' # request
                PROVE  Goal
  BY <1>1
<1>14. PICK r \in Request :
         \/ \E l \in Location, m \in Mode, c \in BOOLEAN : SetSystemMode(r, l, m, c)
         \/ \E d \in Device, m \in Mode : SetDeviceSystemMode(r, d, m)
         \/ \E src, dest \in Location : TransferDevices(r, src, dest)
         \/ \E src \in Location : TransferLocation(r, src)
         \/ CloneLocation(r) \/ MarkMerged(r) \/ Moves(r)
         \/ \E l \in Location : ReadDevices(r, l)
         \/ \E s \in Slot : SaveMode(r, s) \/ \E d \in Device : ForDevice(r, s, d)
  BY <1>12, <1>13, Zenon
<1> QED
  BY <1>3, <1>4, <1>6, <1>7, <1>8, <1>9, <1>10, <1>11, <1>14, Zenon

-----------------------------------------------------------------------------
(* The second inductive invariant: what the requests know of devices and   *)
(* locations.                                                              *)

(* A request has read the device d and not yet sent it the mode, has sent  *)
(* it and not yet recorded it, or moves the device.                        *)
InCommand(r, s, d) ==
    request[r].kind = "mode" /\ request[r].call[s].pc = "work" /\ d \in request[r].call[s].command

InRecord(r, s, d) ==
    request[r].kind = "mode" /\ request[r].call[s].pc = "work" /\ d \in request[r].call[s].record

InStep(r, d) == IsMoving(r) /\ d \in DOMAIN request[r].step

Held(r, d) ==
    \/ \E s \in Slot : InCommand(r, s, d) \/ InRecord(r, s, d)
    \/ InStep(r, d)

Consistent(d) == Recorded(d) /\ device[d].mode = actual[d]

StepIsTrue(r, d) ==
    LET step == request[r].step[d]
    IN  /\ step.pc \in {"read", "remove", "end"} => Consistent(d)
        /\ step.pc \in {"remove", "put"} => step.mode = actual[d]

HolderTrue(r, d) ==
    /\ \A l \in Location : InCommand(r, l, d) \/ InRecord(r, l, d) => device[d].at = l
    /\ \A s \in Slot : InCommand(r, s, d) => Consistent(d)
    /\ \A s \in Slot : InRecord(r, s, d) => Recorded(d) /\ actual[d] = request[r].target
    /\ InStep(r, d) => StepIsTrue(r, d)

(* A device that no two requests worked on at a time has one request at    *)
(* most, in the call of the location where it is.  Its record is true, but *)
(* between command and record, and while a transfer holds the record.      *)
DeviceInv(d) ==
    /\ \A q, r \in Request : Held(q, d) /\ Held(r, d) => q = r
    /\ \A r \in Request : HolderTrue(r, d)
    /\ (\A r \in Request : ~Held(r, d)) => Consistent(d)

(* The calls of a request for one device, and of one for a location: first *)
(* that location is read, and then the calls below it are made.            *)
CallsOfTop(r) ==
    LET top == request[r].top
        call == request[r].call
    IN  /\ top = Direct => \A l \in Location : call[l].pc = "none"
        /\ top # Direct => call[Direct].pc = "none"
        /\ call[top].pc = "read" => \A s \in Slot \ {top} : call[s].pc = "none"

HoldInv ==
    /\ \A r \in Request : request[r].kind = "mode" => CallsOfTop(r)
    /\ \A d \in Device \ crossed : DeviceInv(d)

Others == [Request -> SUBSET (Location \cup Device)]

(* Clones are new: a location is known unless it is a clone to be made.    *)
ClonesAreNew ==
    /\ \A l \in Location \ Fresh : Known(l)
    /\ \A r \in Request :
          request[r] = Idle \/ (request[r].kind = "transfer" /\ request[r].pc = "clone")
          => ~Known(CloneId[r])

HasMode(r, d) == device[d].mode = request[r].target /\ actual[d] = request[r].target

(* What a call knows of the devices at its location.                       *)
CallInv(r, l) ==
    LET call == request[r].call[l]
    IN  /\ call.pc # "none" => Known(l)
        /\ call.pc = "work" =>
              \/ call.failed
              \/ \A d \in DevicesAt(l) \ touched[r] :
                    \/ d \in call.command
                    \/ d \in call.record /\ actual[d] = request[r].target
                    \/ HasMode(r, d)
        /\ call.pc = "done" =>
              /\ l \in touched[r] \/ location[l].mode = request[r].target
              /\ \A d \in DevicesAt(l) \ touched[r] : HasMode(r, d)

(* Every call below was made before the devices are sent the mode, and has *)
(* succeeded when the first one has.                                       *)
CascadeInv(r) ==
    LET top == request[r].top
        call == request[r].call
    IN  /\ call[top].pc # "none"
        /\ call[top].pc \in {"work", "done"} /\ request[r].cascade =>
              \A l \in Below[top] \ {top} : call[l].pc # "none"
        /\ call[top].pc = "done" => \A l \in Location : call[l].pc \in {"none", "done"}

ModeInv ==
    /\ locked \in SUBSET Device
    /\ touched \in Others
    /\ ClonesAreNew
    /\ \A r \in Request : request[r].kind = "mode" => locked \subseteq touched[r]
    /\ \A r \in Request : request[r].kind = "mode" /\ request[r].top # Direct =>
          CascadeInv(r) /\ \A l \in Location : CallInv(r, l)

-----------------------------------------------------------------------------
(* How the invariant of one device survives a step of one request.         *)
LEMMA HeldBy ==
    ASSUME TypeOK, NEW r \in Request, NEW d
    PROVE  d \in Holds(r) <=> Held(r, d)
<1>1. CASE request[r].kind = "mode"
  BY <1>1 DEF Holds, Held, InCommand, InRecord, InStep, IsMoving
<1>2. CASE request[r].kind = "transfer"
  BY <1>2 DEF Holds, Held, InCommand, InRecord, InStep, IsMoving
<1>3. CASE request[r].kind \notin {"mode", "transfer"}
  BY <1>3 DEF Holds, Held, InCommand, InRecord, InStep, IsMoving
<1> QED
  BY <1>1, <1>2, <1>3

LEMMA Crossing ==
    ASSUME TypeOK, NEW r \in Request, NEW D, Cross(r, D)
    PROVE  /\ crossed \subseteq crossed'
           /\ \A d \in D : d \notin crossed' => \A q \in Request \ {r} : ~Held(q, d)
<1>1. crossed' = crossed \cup (D \cap UNION {Holds(q) : q \in Request \ {r}})
  BY DEF Cross
<1> SUFFICES ASSUME NEW d \in D, d \notin crossed', NEW q \in Request \ {r}
             PROVE  ~Held(q, d)
  BY <1>1
<1>2. d \notin Holds(q)
  BY <1>1
<1> QED
  BY <1>2, HeldBy

(* The device is the request's alone, and what it knows is true.           *)
LEMMA OwnerStep ==
    ASSUME NEW d \in Device, NEW r \in Request,
           \A q \in Request \ {r} : request'[q] = request[q] /\ ~Held(q, d),
           HolderTrue(r, d)', ~Held(r, d)' => Consistent(d)'
    PROVE  DeviceInv(d)'
<1>1. ASSUME NEW q \in Request \ {r}
      PROVE  ~Held(q, d)' /\ HolderTrue(q, d)'
  <2>1. request'[q] = request[q] /\ ~Held(q, d)
    OBVIOUS
  <2>2. ~Held(q, d)'
    BY <2>1 DEF Held, InCommand, InRecord, InStep, IsMoving
  <2>3. Location \subseteq Slot
    BY DEF Slot
  <2> QED
    BY <2>2, <2>3 DEF Held, HolderTrue
<1> QED
  BY <1>1 DEF DeviceInv

(* The step is about other devices.                                        *)
KeepsHold(r, d) ==
    /\ \A s \in Slot : /\ InCommand(r, s, d)' <=> InCommand(r, s, d)
                       /\ InRecord(r, s, d)' <=> InRecord(r, s, d)
                       /\ InRecord(r, s, d) => request'[r].target = request[r].target
    /\ InStep(r, d)' <=> InStep(r, d)
    /\ InStep(r, d) => request'[r].step[d] = request[r].step[d]

LEMMA OtherStep ==
    ASSUME NEW d \in Device, DeviceInv(d), NEW r \in Request,
           \A q \in Request \ {r} : request'[q] = request[q],
           KeepsHold(r, d), device'[d] = device[d], actual'[d] = actual[d]
    PROVE  DeviceInv(d)'
<1>1. \A q \in Request : KeepsHold(q, d)
  <2> SUFFICES ASSUME NEW q \in Request \ {r} PROVE KeepsHold(q, d)
    OBVIOUS
  <2>1. request'[q] = request[q]
    OBVIOUS
  <2> QED
    BY <2>1 DEF KeepsHold, InCommand, InRecord, InStep, IsMoving
<1>2. \A q \in Request : Held(q, d)' <=> Held(q, d)
  BY <1>1 DEF Held, KeepsHold
<1>3. Consistent(d)' <=> Consistent(d)
  BY DEF Consistent, Recorded
<1>4. ASSUME NEW q \in Request
      PROVE  HolderTrue(q, d)'
  <2>1. HolderTrue(q, d) /\ KeepsHold(q, d)
    BY <1>1 DEF DeviceInv
  <2>2. Location \subseteq Slot
    BY DEF Slot
  <2>3. \A l \in Location : (InCommand(q, l, d) \/ InRecord(q, l, d))' => device'[d].at = l
    BY <2>1, <2>2 DEF HolderTrue, KeepsHold
  <2>4. \A s \in Slot : InCommand(q, s, d)' => Consistent(d)'
    BY <1>3, <2>1 DEF HolderTrue, KeepsHold
  <2>5. \A s \in Slot : InRecord(q, s, d)' => Recorded(d)' /\ actual'[d] = request'[q].target
    BY <2>1 DEF HolderTrue, KeepsHold, Recorded
  <2>6. InStep(q, d)' => StepIsTrue(q, d)'
    BY <1>3, <2>1 DEF HolderTrue, KeepsHold, StepIsTrue
  <2> QED
    BY <2>3, <2>4, <2>5, <2>6 DEF HolderTrue
<1> QED
  BY <1>2, <1>3, <1>4 DEF DeviceInv

(* A request that holds a device is alone with it.                         *)
LEMMA Alone ==
    ASSUME NEW d \in Device, DeviceInv(d), NEW r \in Request, Held(r, d)
    PROVE  \A q \in Request \ {r} : ~Held(q, d)
  BY DEF DeviceInv

-----------------------------------------------------------------------------
(* The steps, as they concern a device.                                    *)
LEMMA NotHeld ==
    ASSUME NEW r \in Request, NEW d, request[r].kind # "mode", ~IsMoving(r)
    PROVE  ~Held(r, d) /\ ~InStep(r, d) /\ \A s \in Slot : ~InCommand(r, s, d) /\ ~InRecord(r, s, d)
  BY DEF Held, InCommand, InRecord, InStep

LEMMA BeginModeHold ==
    ASSUME TypeOK, NEW r \in Request, NEW l \in Location, NEW m \in Mode, NEW c \in BOOLEAN,
           SetSystemMode(r, l, m, c), NEW d \in Device, DeviceInv(d)
    PROVE  DeviceInv(d)'
<1> DEFINE call == [s \in Slot |-> IF s = l THEN Reading ELSE NoCall]
           state == [kind |-> "mode", top |-> l, target |-> m, cascade |-> c, call |-> call]
<1>1. request[r] = Idle /\ request' = [request EXCEPT ![r] = state] /\ device' = device /\ actual' = actual
  BY DEF SetSystemMode, Begin
<1>2. \A s \in Slot : call[s].pc # "work"
  BY DEF Reading, NoCall
<1> HIDE DEF call
<1>3. state.kind = "mode" /\ state.call = call
  OBVIOUS
<1> HIDE DEF state
<1>4. request'[r] = state /\ \A q \in Request \ {r} : request'[q] = request[q]
  BY <1>1 DEF TypeOK
<1>5. request[r].kind = "idle"
  BY <1>1 DEF Idle
<1>6. KeepsHold(r, d)
  BY <1>2, <1>3, <1>4, <1>5 DEF KeepsHold, InCommand, InRecord, InStep, IsMoving
<1> QED
  BY <1>1, <1>4, <1>6, OtherStep

LEMMA BeginDirectHold ==
    ASSUME TypeOK, NEW r \in Request, NEW e \in Device, NEW m \in Mode,
           SetDeviceSystemMode(r, e, m), NEW d \in Device, DeviceInv(d), d \notin crossed'
    PROVE  DeviceInv(d)'
<1> DEFINE call == [s \in Slot |-> IF s = Direct THEN Working({e}) ELSE NoCall]
           state == [kind |-> "mode", top |-> Direct, target |-> m, cascade |-> FALSE, call |-> call]
<1>1. /\ request[r] = Idle /\ request' = [request EXCEPT ![r] = state]
      /\ device' = device /\ actual' = actual /\ Cross(r, {e})
  BY DEF SetDeviceSystemMode, Begin
<1>2. /\ \A s \in Slot \ {Direct} : call[s].pc # "work"
      /\ call[Direct].pc = "work" /\ call[Direct].command = {e} /\ call[Direct].record = {}
  BY DEF Working, NoCall, Slot
<1> HIDE DEF call
<1>3. state.kind = "mode" /\ state.call = call
  OBVIOUS
<1> HIDE DEF state
<1>4. request'[r] = state /\ \A q \in Request \ {r} : request'[q] = request[q]
  BY <1>1 DEF TypeOK
<1>5. request[r].kind = "idle"
  BY <1>1 DEF Idle
<1>6. Direct \notin Location /\ Direct \in Slot
  BY LocationDevicesAssumption DEF Slot
<1>7. CASE d # e
  <2>1. KeepsHold(r, d)
    BY <1>2, <1>3, <1>4, <1>5, <1>7 DEF KeepsHold, InCommand, InRecord, InStep, IsMoving
  <2> QED
    BY <1>1, <1>4, <2>1, OtherStep
<1>8. CASE d = e
  <2>1. \A q \in Request \ {r} : ~Held(q, d)
    BY <1>1, <1>8, Crossing
  <2>2. ~Held(r, d)
    BY <1>5, NotHeld DEF IsMoving
  <2>3. Consistent(d)
    BY <2>1, <2>2 DEF DeviceInv
  <2>4. Consistent(d)'
    BY <1>1, <2>3 DEF Consistent, Recorded
  <2>5. HolderTrue(r, d)'
    BY <1>2, <1>3, <1>4, <1>6, <2>4
       DEF HolderTrue, InCommand, InRecord, InStep, IsMoving, Slot
  <2> QED
    BY <1>4, <2>1, <2>4, <2>5, OwnerStep
<1> QED
  BY <1>7, <1>8

LEMMA BeginMoveHold ==
    ASSUME TypeOK, NEW r \in Request, NEW src \in Location, NEW dest \in Location,
           request[r].kind # "mode", ~IsMoving(r), device' = device, actual' = actual,
           request' = [request EXCEPT ![r] = Moving(src, dest, DevicesAt(src))],
           Cross(r, DevicesAt(src)), NEW d \in Device, DeviceInv(d), d \notin crossed'
    PROVE  DeviceInv(d)'
<1> DEFINE state == Moving(src, dest, DevicesAt(src))
<1>1. /\ state.kind = "transfer" /\ state.pc = "move" /\ DOMAIN state.step = DevicesAt(src)
      /\ \A x \in DevicesAt(src) : state.step[x].pc = "read"
  BY MovingType DEF Moving
<1> HIDE DEF state
<1>2. request'[r] = state /\ \A q \in Request \ {r} : request'[q] = request[q]
  BY DEF TypeOK, state
<1>3. ~Held(r, d) /\ ~InStep(r, d) /\ \A s \in Slot : ~InCommand(r, s, d) /\ ~InRecord(r, s, d)
  BY NotHeld
<1>4. CASE d \notin DevicesAt(src)
  <2>1. KeepsHold(r, d)
    BY <1>1, <1>2, <1>3, <1>4 DEF KeepsHold, InCommand, InRecord, InStep, IsMoving
  <2> QED
    BY <1>2, <2>1, OtherStep
<1>5. CASE d \in DevicesAt(src)
  <2>1. \A q \in Request \ {r} : ~Held(q, d)
    BY <1>5, Crossing
  <2>2. Consistent(d)
    BY <1>3, <2>1 DEF DeviceInv
  <2>3. Consistent(d)'
    BY <2>2 DEF Consistent, Recorded
  <2>4. HolderTrue(r, d)'
    BY <1>1, <1>2, <1>5, <2>3 DEF HolderTrue, InCommand, InRecord, InStep, IsMoving, StepIsTrue, Slot
  <2> QED
    BY <1>2, <2>1, <2>3, <2>4, OwnerStep
<1> QED
  BY <1>4, <1>5

(* What SaveMode does to the call it ends.                                 *)
LEMMA SaveCall ==
    ASSUME TypeOK, NEW r \in Request, NEW s \in Slot, SaveMode(r, s)
    PROVE  /\ request[r].kind = "mode" /\ request[r].call[s].pc = "work"
           /\ request' \in [Request -> RequestType] /\ GoesOn(r)
           /\ request'[r].call[s].pc = IF Rejected(r, s) THEN "failed" ELSE "done"
           /\ \A t \in Slot \ {s} : request'[r].call[t] = request[r].call[t]
<1>1. request[r].kind = "mode" /\ request[r].call[s].pc = "work"
  BY DEF SaveMode
<1>2. PICK state \in {[pc |-> "failed"], [pc |-> "done"]} :
         Call(r, s, state) /\ state.pc = IF Rejected(r, s) THEN "failed" ELSE "done"
  BY DEF SaveMode
<1>3. state \in CallType
  BY DEF CallType
<1> QED
  BY <1>1, <1>2, <1>3, SlotChanged

LEMMA ReadCall ==
    ASSUME TypeOK, NEW r \in Request, NEW l \in Location, ReadDevices(r, l)
    PROVE  LET unlocked == DevicesAt(l) \ locked
               call == request'[r].call
           IN  /\ request[r].kind = "mode" /\ request[r].call[l].pc = "read"
               /\ request' \in [Request -> RequestType] /\ GoesOn(r)
               /\ \/ /\ call[l].pc = "failed" /\ crossed' = crossed
                     /\ \A s \in Slot \ {l} : call[s] = request[r].call[s]
                  \/ /\ Cross(r, unlocked)
                     /\ \A s \in Slot : call[s] = IF s \in Called(r, l) THEN Reading
                                                  ELSE IF s = l THEN Working(unlocked)
                                                  ELSE request[r].call[s]
<1>1. request[r].kind = "mode" /\ l \in Slot /\ request[r].call[l].pc = "read"
  BY DEF ReadDevices, Reading, Slot
<1>2. request' \in [Request -> RequestType] /\ GoesOn(r)
  BY ModeStep
<1>3. CASE Call(r, l, [pc |-> "failed"]) /\ crossed' = crossed
  <2>1. [pc |-> "failed"] \in CallType
    BY DEF CallType
  <2> QED
    BY <1>1, <1>3, <2>1, SlotChanged
<1>4. CASE ~(Call(r, l, [pc |-> "failed"]) /\ crossed' = crossed)
  <2> DEFINE unlocked == DevicesAt(l) \ locked
             call == [s \in Slot |-> IF s \in Called(r, l) THEN Reading
                                     ELSE IF s = l THEN Working(unlocked) ELSE request[r].call[s]]
  <2>1. request' = [request EXCEPT ![r].call = call] /\ Cross(r, unlocked)
    BY <1>4 DEF ReadDevices
  <2>2. request[r].call \in [Slot -> CallType]
    BY <1>1, Fields DEF ModeRequest
  <2>3. Reading \in CallType /\ Working(unlocked) \in CallType
    BY DEF CallType, Reading, Working, DevicesAt
  <2>4. call \in [Slot -> CallType]
    BY <2>2, <2>3
  <2>5. \A s \in Slot : call[s] = IF s \in Called(r, l) THEN Reading
                                  ELSE IF s = l THEN Working(unlocked) ELSE request[r].call[s]
    OBVIOUS
  <2> HIDE DEF call, unlocked
  <2>6. request'[r].call = call
    BY <1>1, <2>1, <2>4, CallChanged
  <2> QED
    BY <1>1, <1>2, <2>1, <2>5, <2>6 DEF unlocked
<1> QED
  BY <1>3, <1>4

(* Calls that are made again were not made before.                         *)
LEMMA CalledOnce ==
    ASSUME TypeOK, NEW r \in Request, NEW l \in Location, request[r].kind = "mode", CallsOfTop(r),
           request[r].call[l].pc = "read"
    PROVE  /\ request[r].top \in Location
           /\ Called(r, l) \in SUBSET (Location \ ({l} \cup Fresh))
           /\ \A s \in Called(r, l) : request[r].call[s].pc = "none"
<1>1. request[r].top \in Location
  BY Fields DEF ModeRequest, Slot, CallsOfTop
<1>2. Called(r, l) = {} \/ (l = request[r].top /\ Called(r, l) = Below[l])
  BY DEF Called
<1>3. Below[l] \in SUBSET (Location \ ({l} \cup Fresh))
  BY LocationDevicesAssumption
<1>4. l = request[r].top => \A s \in Slot \ {l} : request[r].call[s].pc = "none"
  BY DEF CallsOfTop
<1> QED
  BY <1>1, <1>2, <1>3, <1>4 DEF Slot

(* The calls that a call makes, or that it is rejected.                    *)
LEMMA ReadMakesCalls ==
    ASSUME TypeOK, NEW r \in Request, NEW l \in Location, ReadDevices(r, l), CallsOfTop(r)
    PROVE  LET unlocked == DevicesAt(l) \ locked
               call == request'[r].call
           IN  \/ /\ call[l].pc = "failed" /\ crossed' = crossed
                  /\ \A s \in Slot \ {l} : call[s] = request[r].call[s]
               \/ /\ Cross(r, unlocked)
                  /\ Leaves(call[l], unlocked, {}, FALSE)
                  /\ \A s \in Called(r, l) : call[s].pc = "read"
                  /\ \A s \in Slot \ ({l} \cup Called(r, l)) : call[s] = request[r].call[s]
<1> DEFINE unlocked == DevicesAt(l) \ locked
           call == request'[r].call
<1>1. Called(r, l) \subseteq Slot \ {l} /\ l \in Slot
  BY ReadCall, CalledOnce DEF Slot
<1>2. CASE call[l].pc = "failed" /\ crossed' = crossed /\ \A s \in Slot \ {l} : call[s] = request[r].call[s]
  BY <1>2
<1>3. CASE /\ Cross(r, unlocked)
           /\ \A s \in Slot : call[s] = IF s \in Called(r, l) THEN Reading
                                        ELSE IF s = l THEN Working(unlocked) ELSE request[r].call[s]
  BY <1>1, <1>3 DEF Working, Reading, Leaves
<1> QED
  BY <1>2, <1>3, ReadCall

LEMMA ReadHold ==
    ASSUME TypeOK, NEW r \in Request, NEW l \in Location, ReadDevices(r, l), CallsOfTop(r),
           NEW d \in Device, DeviceInv(d), d \notin crossed'
    PROVE  DeviceInv(d)'
<1> DEFINE unlocked == DevicesAt(l) \ locked
           call == request'[r].call
<1>1. request[r].kind = "mode" /\ request[r].call[l].pc = "read" /\ GoesOn(r)
  BY ReadCall
<1>2. device' = device /\ actual' = actual
  BY DEF ReadDevices
<1>3. \A s \in Called(r, l) : request[r].call[s].pc = "none"
  BY <1>1, CalledOnce
<1>4. \A q \in Request \ {r} : request'[q] = request[q]
  BY <1>1 DEF GoesOn
<1>5. CASE call[l].pc = "failed" /\ \A s \in Slot \ {l} : call[s] = request[r].call[s]
  <2>1. KeepsHold(r, d)
    BY <1>1, <1>5 DEF KeepsHold, InCommand, InRecord, InStep, IsMoving, GoesOn
  <2> QED
    BY <1>2, <1>4, <2>1, OtherStep
<1>6. CASE /\ Cross(r, unlocked) /\ Leaves(call[l], unlocked, {}, FALSE)
           /\ \A s \in Called(r, l) : call[s].pc = "read"
           /\ \A s \in Slot \ ({l} \cup Called(r, l)) : call[s] = request[r].call[s]
  <2>2. /\ call[l].pc = "work" /\ call[l].command = unlocked /\ call[l].record = {}
        /\ \A s \in Called(r, l) : call[s].pc = "read"
        /\ \A s \in Slot \ ({l} \cup Called(r, l)) : call[s] = request[r].call[s]
    BY <1>6 DEF Leaves
  <2> HIDE DEF unlocked
  <2>3. \A s \in Slot \ {l} : /\ InCommand(r, s, d)' <=> InCommand(r, s, d)
                              /\ InRecord(r, s, d)' <=> InRecord(r, s, d)
    BY <1>1, <1>3, <2>2 DEF InCommand, InRecord, GoesOn
  <2>4. /\ ~InCommand(r, l, d) /\ ~InRecord(r, l, d) /\ ~InRecord(r, l, d)'
        /\ InCommand(r, l, d)' <=> d \in unlocked
        /\ ~InStep(r, d) /\ ~InStep(r, d)'
    BY <1>1, <2>2 DEF InCommand, InRecord, InStep, IsMoving, GoesOn
  <2>5. CASE d \notin unlocked
    <3>1. KeepsHold(r, d)
      BY <1>1, <2>3, <2>4, <2>5 DEF KeepsHold, GoesOn
    <3> QED
      BY <1>2, <1>4, <3>1, OtherStep
  <2>6. CASE d \in unlocked
    <3>1. \A q \in Request \ {r} : ~Held(q, d)
      BY <1>6, <2>6, Crossing
    <3>2. device[d].at = l /\ Recorded(d)
      BY <2>6 DEF unlocked, DevicesAt
    <3>3. ~Held(r, d)
      <4>1. ASSUME NEW s \in Slot PROVE ~InCommand(r, s, d) /\ ~InRecord(r, s, d)
        <5>1. CASE s = Direct
          BY <1>1, <5>1, CalledOnce DEF CallsOfTop, InCommand, InRecord
        <5>2. CASE s \in Location
          BY <2>4, <3>2, <5>2 DEF DeviceInv, HolderTrue
        <5> QED
          BY <5>1, <5>2 DEF Slot
      <4> QED
        BY <2>4, <4>1 DEF Held
    <3>4. Consistent(d)
      BY <3>1, <3>3 DEF DeviceInv
    <3>5. Consistent(d)' /\ device'[d].at = l
      BY <1>2, <3>2, <3>4 DEF Consistent, Recorded
    <3>6. \A s \in Slot \ {l} : ~InCommand(r, s, d)' /\ ~InRecord(r, s, d)'
      BY <2>3, <3>3 DEF Held
    <3>7. HolderTrue(r, d)'
      BY <2>4, <3>5, <3>6 DEF HolderTrue, Slot
    <3> QED
      BY <1>4, <3>1, <3>5, <3>7, OwnerStep
  <2> QED
    BY <2>5, <2>6
<1> QED
  BY <1>5, <1>6, ReadMakesCalls

LEMMA ForDeviceHold ==
    ASSUME TypeOK, actual \in [Device -> Mode], NEW r \in Request, NEW s \in Slot, NEW e \in Device,
           ForDevice(r, s, e), CallsOfTop(r),
           NEW d \in Device, DeviceInv(d), d \notin crossed'
    PROVE  DeviceInv(d)'
<1> DEFINE c == request[r].call[s]
           new == request'[r].call[s]
<1>1. request[r].kind = "mode" /\ c \in WorkType /\ GoesOn(r)
      /\ \A t \in Slot \ {s} : request'[r].call[t] = request[r].call[t]
  BY DeviceCall
<1>2. \A q \in Request \ {r} : request'[q] = request[q]
  BY <1>1 DEF GoesOn
<1>3. \A t \in Slot \ {s} : /\ InCommand(r, t, d)' <=> InCommand(r, t, d)
                            /\ InRecord(r, t, d)' <=> InRecord(r, t, d)
  BY <1>1 DEF InCommand, InRecord, GoesOn
<1>4. ~InStep(r, d) /\ ~InStep(r, d)' /\ request'[r].target = request[r].target
  BY <1>1 DEF InStep, IsMoving, GoesOn
<1>5. /\ InCommand(r, s, d) <=> d \in c.command
      /\ InRecord(r, s, d) <=> d \in c.record
  BY <1>1 DEF InCommand, InRecord, WorkType, c
<1>0. /\ Command(r, s, e) => Leaves(new, c.command \ {e}, c.record \cup {e}, c.failed)
      /\ Record(r, s, e) => Leaves(new, c.command, c.record \ {e}, (c.failed \/ ~Recorded(e)))
      /\ CommandFails(r, s, e) => Leaves(new, c.command \ {e}, c.record, TRUE)
      /\ RecordFails(r, s, e) => Leaves(new, c.command, c.record \ {e}, TRUE)
  BY DeviceCall, ZenonT(40)
<1> HIDE DEF new, c
<1>6. new.pc = "work" /\ (d # e => (d \in new.command <=> d \in c.command) /\ (d \in new.record <=> d \in c.record))
  BY <1>0 DEF ForDevice, Leaves
<1>7. /\ InCommand(r, s, d)' <=> d \in new.command
      /\ InRecord(r, s, d)' <=> d \in new.record
  BY <1>1, <1>6 DEF InCommand, InRecord, GoesOn, new
<1>8. CASE d # e
  <2>1. device'[d] = device[d] /\ actual'[d] = actual[d]
    <3>1. \/ device' = device \/ device' = [device EXCEPT ![e].mode = request[r].target]
      BY DEF ForDevice, Command, Record, CommandFails, RecordFails
    <3>2. \/ actual' = actual \/ actual' = [actual EXCEPT ![e] = request[r].target]
      BY DEF ForDevice, Command, Record, CommandFails, RecordFails
    <3> QED
      BY <1>8, <3>1, <3>2 DEF TypeOK
  <2>2. KeepsHold(r, d)
    BY <1>3, <1>4, <1>5, <1>6, <1>7, <1>8 DEF KeepsHold
  <2> QED
    BY <1>2, <2>1, <2>2, OtherStep
<1>9. CASE d = e
  <2>0. InCommand(r, s, d) \/ InRecord(r, s, d)
    BY <1>5, <1>9 DEF ForDevice, Command, Record, CommandFails, RecordFails, c
  <2>1. Held(r, d)
    BY <2>0 DEF Held
  <2>2. \A q \in Request \ {r} : ~Held(q, d)
    BY <2>1, Alone
  <2>3. \A t \in Slot \ {s} : ~InCommand(r, t, d) /\ ~InRecord(r, t, d)
    <3> SUFFICES ASSUME NEW t \in Slot \ {s}, InCommand(r, t, d) \/ InRecord(r, t, d)
                 PROVE  FALSE
      OBVIOUS
    <3>1. InCommand(r, s, d) \/ InRecord(r, s, d)
      BY <2>0
    <3>2. CASE s \in Location /\ t \in Location
      BY <3>1, <3>2 DEF DeviceInv, HolderTrue
    <3>3. CASE s = Direct \/ t = Direct
      BY <3>1, <3>3 DEF CallsOfTop, InCommand, InRecord, Slot
    <3> QED
      BY <3>2, <3>3 DEF Slot
  <2>4. /\ InCommand(r, s, d) => Consistent(d)
        /\ InRecord(r, s, d) => Recorded(d) /\ actual[d] = request[r].target
        /\ s \in Location => device[d].at = s
    BY <2>0 DEF DeviceInv, HolderTrue
  <2>5. Recorded(d)
    BY <2>0, <2>4 DEF Consistent
  <2> DEFINE Left == /\ Recorded(d)' /\ (s \in Location => device'[d].at = s)
                     /\ d \in new.command => Consistent(d)'
                     /\ d \in new.record => actual'[d] = request[r].target
                     /\ d \notin new.command /\ d \notin new.record => Consistent(d)'
  <2>6. ASSUME Command(r, s, d) PROVE Left
    <3>1. d \notin new.command /\ d \in new.record
      BY <1>0, <1>9, <2>6 DEF Leaves
    <3>2. device' = device /\ actual'[d] = request[r].target
      BY <2>6 DEF Command
    <3> QED
      BY <2>4, <2>5, <3>1, <3>2 DEF Recorded
  <2>7. ASSUME Record(r, s, d) PROVE Left
    <3> DEFINE after == [device[d] EXCEPT !.mode = request[r].target]
    <3>1. device' = [device EXCEPT ![d] = after] /\ actual' = actual
      BY <2>5, <2>7 DEF Record
    <3>2. device[d] \in [at : Location, mode : Mode] /\ request[r].target \in Mode
      BY <1>1, <2>5, DeviceCases, Fields DEF ModeRequest
    <3>3. after \in [at : Location, mode : Mode] /\ after.at = device[d].at /\ after.mode = request[r].target
      BY <3>2
    <3> HIDE DEF after
    <3>4. device'[d] = after
      BY <3>1 DEF TypeOK
    <3>5. Recorded(d)'
      BY <3>3, <3>4 DEF Recorded, Gone
    <3>6. actual'[d] = request[r].target
      BY <1>5, <1>9, <2>4, <2>7, <3>1 DEF Record, c
    <3> QED
      BY <2>4, <3>3, <3>4, <3>5, <3>6 DEF Consistent
  <2>8. ASSUME CommandFails(r, s, d) PROVE Left
    <3>1. d \notin new.command /\ new.record = c.record
      BY <1>0, <1>9, <2>8 DEF Leaves
    <3>2. device' = device /\ actual' = actual /\ d \in c.command
      BY <1>9, <2>8 DEF CommandFails, c
    <3>3. Consistent(d)'
      BY <1>5, <2>4, <3>2 DEF Consistent, Recorded
    <3> QED
      BY <1>5, <2>4, <3>1, <3>2, <3>3 DEF Consistent
  <2>9. ~RecordFails(r, s, d)
    BY DEF RecordFails
  <2>10. Left
    BY <1>9, <2>6, <2>7, <2>8, <2>9 DEF ForDevice
  <2>11. HolderTrue(r, d)'
    <3>1. \A l \in Location : (InCommand(r, l, d) \/ InRecord(r, l, d))' => device'[d].at = l
      BY <1>3, <2>3, <2>10 DEF Slot
    <3>2. \A t \in Slot : InCommand(r, t, d)' => Consistent(d)'
      BY <1>3, <1>7, <2>3, <2>10
    <3>3. \A t \in Slot : InRecord(r, t, d)' => Recorded(d)' /\ actual'[d] = request'[r].target
      BY <1>3, <1>4, <1>7, <2>3, <2>10
    <3> QED
      BY <1>4, <3>1, <3>2, <3>3 DEF HolderTrue
  <2>12. ~Held(r, d)' => Consistent(d)'
    BY <1>7, <2>10 DEF Held
  <2> QED
    BY <1>2, <2>2, <2>11, <2>12, OwnerStep, SMTT(30)
<1> QED
  BY <1>8, <1>9

LEMMA SaveHold ==
    ASSUME TypeOK, NEW r \in Request, NEW s \in Slot, SaveMode(r, s), NEW d \in Device, DeviceInv(d)
    PROVE  DeviceInv(d)'
<1>1. /\ request[r].kind = "mode" /\ request[r].call[s].pc = "work"
      /\ request[r].call[s].command = {} /\ request[r].call[s].record = {}
      /\ device' = device /\ actual' = actual
  BY DEF SaveMode
<1>2. GoesOn(r) /\ request'[r].call[s].pc \in {"done", "failed"}
      /\ \A t \in Slot \ {s} : request'[r].call[t] = request[r].call[t]
  BY SaveCall
<1>3. KeepsHold(r, d)
  BY <1>1, <1>2 DEF KeepsHold, InCommand, InRecord, InStep, IsMoving, GoesOn
<1>4. \A q \in Request \ {r} : request'[q] = request[q]
  BY <1>2 DEF GoesOn
<1> QED
  BY <1>1, <1>3, <1>4, OtherStep

LEMMA BeginCloneHold ==
    ASSUME TypeOK, NEW r \in Request, NEW src \in Location, TransferLocation(r, src),
           NEW d \in Device, DeviceInv(d)
    PROVE  DeviceInv(d)'
<1> DEFINE state == [kind |-> "transfer", pc |-> "clone", src |-> src,
                     mode |-> location[src].mode, merged |-> location[src].merged]
<1>1. /\ request[r] = Idle /\ request' = [request EXCEPT ![r] = state]
      /\ device' = device /\ actual' = actual
  BY DEF TransferLocation, Begin
<1>2. state.kind = "transfer" /\ state.pc = "clone"
  OBVIOUS
<1> HIDE DEF state
<1>3. request'[r] = state /\ \A q \in Request \ {r} : request'[q] = request[q]
  BY <1>1 DEF TypeOK
<1>4. KeepsHold(r, d)
  BY <1>1, <1>2, <1>3 DEF KeepsHold, InCommand, InRecord, InStep, IsMoving, Idle
<1> QED
  BY <1>1, <1>3, <1>4, OtherStep

(* A step of a transfer with one device.                                   *)
LEMMA StepHold ==
    ASSUME TypeOK, NEW r \in Request, NEW e \in Device, IsMoving(r), e \in DOMAIN request[r].step,
           NEW state \in StepType,
           Step(r, e, state) \/ (Reject(r, e) /\ state = [pc |-> "end"]),
           \A x \in Device \ {e} : device'[x] = device[x], actual' = actual,
           DeviceInv(e) =>
               /\ state.pc \in {"read", "remove", "end"} => Consistent(e)'
               /\ state.pc \in {"remove", "put"} => state.mode = actual[e],
           NEW d \in Device, DeviceInv(d)
    PROVE  DeviceInv(d)'
<1>1. /\ \A q \in Request \ {r} : request'[q] = request[q]
      /\ IsMoving(r)' /\ DOMAIN request'[r].step = DOMAIN request[r].step
      /\ request'[r].step[e] = state
      /\ \A x \in DOMAIN request[r].step \ {e} : request'[r].step[x] = request[r].step[x]
  BY StepChanged
<1>2. \A s \in Slot : ~InCommand(r, s, d) /\ ~InRecord(r, s, d) /\ ~InCommand(r, s, d)' /\ ~InRecord(r, s, d)'
  BY <1>1 DEF InCommand, InRecord, IsMoving
<1>3. InStep(r, d)' <=> InStep(r, d)
  BY <1>1 DEF InStep
<1>4. CASE d # e
  <2>1. KeepsHold(r, d)
    BY <1>1, <1>2, <1>3, <1>4 DEF KeepsHold, InStep
  <2> QED
    BY <1>1, <1>4, <2>1, OtherStep
<1>5. CASE d = e
  <2>1. Held(r, d) /\ Held(r, d)'
    BY <1>3, <1>5 DEF Held, InStep
  <2>2. \A q \in Request \ {r} : ~Held(q, d)
    BY <2>1, Alone
  <2>3. StepIsTrue(r, d)'
    BY <1>1, <1>5 DEF StepIsTrue
  <2>4. HolderTrue(r, d)'
    BY <1>2, <2>3 DEF HolderTrue, Slot
  <2> QED
    BY <1>1, <2>1, <2>2, <2>4, OwnerStep
<1> QED
  BY <1>4, <1>5

LEMMA TransferHold ==
    ASSUME TypeOK, NEW r \in Request, NEW e \in Device,
           ReadRecord(r, e) \/ RemoveRecord(r, e) \/ PutRecord(r, e) \/ PutFails(r, e),
           NEW d \in Device, DeviceInv(d), d \notin crossed'
    PROVE  DeviceInv(d)'
<1> DEFINE step == request[r].step[e]
           End == [pc |-> "end"]
<1>1. IsMoving(r) /\ e \in DOMAIN request[r].step
  BY DEF ReadRecord, RemoveRecord, PutRecord, PutFails, AtStep, IsMoving
<1>2. DeviceInv(e) => StepIsTrue(r, e)
  BY <1>1 DEF DeviceInv, HolderTrue, InStep
<1>3. End \in StepType /\ End.pc = "end"
  BY DEF StepType
<1>4. CASE ReadRecord(r, e)
  <2>1. step.pc = "read" /\ device' = device /\ actual' = actual
    BY <1>4 DEF ReadRecord, AtStep
  <2>2. DeviceInv(e) => Consistent(e) /\ Consistent(e)'
    BY <1>2, <2>1 DEF StepIsTrue, Consistent, Recorded
  <2>3. CASE Recorded(e)
    <3> DEFINE state == [pc |-> "remove", mode |-> device[e].mode]
    <3>1. Step(r, e, state)
      BY <1>4, <2>3 DEF ReadRecord
    <3>2. state \in StepType /\ state.pc = "remove" /\ state.mode = device[e].mode
      BY <2>3, DeviceCases DEF StepType
    <3>3. DeviceInv(e) => state.mode = actual[e]
      BY <2>2, <3>2 DEF Consistent
    <3> HIDE DEF state
    <3> QED
      BY <1>1, <2>1, <2>2, <3>1, <3>2, <3>3, StepHold
  <2>4. CASE ~Recorded(e)
    <3>1. Reject(r, e)
      BY <1>4, <2>4 DEF ReadRecord
    <3> HIDE DEF End
    <3> QED
      BY <1>1, <1>3, <2>1, <2>2, <3>1, StepHold DEF End
  <2> QED
    BY <2>3, <2>4
<1>5. CASE RemoveRecord(r, e)
  <2>1. step.pc = "remove" /\ actual' = actual
    BY <1>5 DEF RemoveRecord, AtStep
  <2>2. CASE Recorded(e)
    <3> DEFINE state == [step EXCEPT !.pc = "put"]
    <3>1. Step(r, e, state) /\ device' = [device EXCEPT ![e] = Gone]
      BY <1>5, <2>2 DEF RemoveRecord
    <3>2. step \in [pc : {"remove", "put"}, mode : Mode]
      BY <1>1, <2>1, Fields DEF MoveRequest, StepType
    <3>3. state \in StepType /\ state.pc = "put" /\ state.mode = step.mode
      BY <3>2 DEF StepType
    <3>4. \A x \in Device \ {e} : device'[x] = device[x]
      BY <3>1 DEF TypeOK
    <3>5. DeviceInv(e) => step.mode = actual[e]
      BY <1>2, <2>1 DEF StepIsTrue
    <3> HIDE DEF state, step
    <3> QED
      BY <1>1, <2>1, <3>1, <3>3, <3>4, <3>5, StepHold
  <2>3. CASE ~Recorded(e)
    <3>1. Reject(r, e) /\ device' = device
      BY <1>5, <2>3 DEF RemoveRecord
    <3>2. ~DeviceInv(e)
      BY <1>2, <2>1, <2>3 DEF StepIsTrue, Consistent
    <3> HIDE DEF End
    <3> QED
      BY <1>1, <1>3, <2>1, <3>1, <3>2, StepHold DEF End
  <2> QED
    BY <2>2, <2>3
<1>6. CASE PutRecord(r, e)
  <2> DEFINE new == [at |-> request[r].dest, mode |-> step.mode]
  <2>1. step.pc = "put" /\ actual' = actual /\ device' = [device EXCEPT ![e] = new]
    BY <1>6 DEF PutRecord, AtStep
  <2>2. Step(r, e, End) \/ Reject(r, e)
    BY <1>6 DEF PutRecord
  <2>3. new \in [at : Location, mode : Mode] /\ new.mode = step.mode
    BY <1>1, <2>1, Fields DEF IsMoving, MoveRequest, StepType
  <2> HIDE DEF new
  <2>4. device'[e] = new /\ \A x \in Device \ {e} : device'[x] = device[x]
    BY <2>1 DEF TypeOK
  <2>5. Recorded(e)'
    BY <2>3, <2>4 DEF Recorded, Gone
  <2>6. DeviceInv(e) => Consistent(e)'
    BY <1>2, <2>1, <2>3, <2>4, <2>5 DEF StepIsTrue, Consistent
  <2> HIDE DEF End
  <2> QED
    BY <1>1, <1>3, <2>1, <2>2, <2>4, <2>6, StepHold DEF End
<1>7. CASE PutFails(r, e)
  <2>1. e \in crossed' /\ Reject(r, e) /\ device' = device /\ actual' = actual
    BY <1>7 DEF PutFails
  <2>2. d # e
    BY <2>1
  <2>3. /\ \A q \in Request \ {r} : request'[q] = request[q]
        /\ IsMoving(r)' /\ DOMAIN request'[r].step = DOMAIN request[r].step
        /\ \A x \in DOMAIN request[r].step \ {e} : request'[r].step[x] = request[r].step[x]
    BY <1>7, TransferStep
  <2>4. KeepsHold(r, d)
    BY <1>1, <2>2, <2>3 DEF KeepsHold, InCommand, InRecord, InStep, IsMoving
  <2> QED
    BY <2>1, <2>3, <2>4, OtherStep
<1> QED
  BY <1>4, <1>5, <1>6, <1>7

LEMMA MarkHold ==
    ASSUME TypeOK, NEW r \in Request, MarkMerged(r), NEW d \in Device, DeviceInv(d)
    PROVE  DeviceInv(d)'
<1> DEFINE pc == IF request[r].failed THEN "failed" ELSE "done"
           state == [request[r] EXCEPT !.pc = pc]
<1>1. IsMoving(r) /\ Moved(r) /\ request' = [request EXCEPT ![r] = state] /\ device' = device /\ actual' = actual
  BY DEF MarkMerged, IsMoving
<1>2. state.kind = "transfer" /\ state.pc # "move"
  BY <1>1, Fields DEF MoveRequest
<1> HIDE DEF state
<1>3. request'[r] = state /\ \A q \in Request \ {r} : request'[q] = request[q]
  BY <1>1 DEF TypeOK
<1>4. /\ ~Held(r, d)' /\ ~InStep(r, d)'
      /\ \A s \in Slot : ~InCommand(r, s, d)' /\ ~InRecord(r, s, d)' /\ ~InCommand(r, s, d) /\ ~InRecord(r, s, d)
  BY <1>1, <1>2, <1>3 DEF Held, InCommand, InRecord, InStep, IsMoving
<1>5. CASE InStep(r, d)
  <2>1. request[r].step[d].pc = "end"
    BY <1>1, <1>5 DEF Moved, InStep
  <2>2. Consistent(d)
    BY <1>5, <2>1 DEF DeviceInv, HolderTrue, StepIsTrue
  <2>3. Consistent(d)'
    BY <1>1, <2>2 DEF Consistent, Recorded
  <2>4. \A q \in Request \ {r} : ~Held(q, d)
    BY <1>5, Alone DEF Held
  <2>5. HolderTrue(r, d)'
    BY <1>4 DEF HolderTrue, Slot
  <2> QED
    BY <1>3, <2>3, <2>4, <2>5, OwnerStep
<1>6. CASE ~InStep(r, d)
  <2>1. KeepsHold(r, d)
    BY <1>4, <1>6 DEF KeepsHold
  <2> QED
    BY <1>1, <1>3, <2>1, OtherStep
<1> QED
  BY <1>5, <1>6

-----------------------------------------------------------------------------
(* The first part of the invariant survives every step.                    *)
ActionOf(r) ==
    \/ \E l \in Location, m \in Mode, c \in BOOLEAN : SetSystemMode(r, l, m, c)
    \/ \E d \in Device, m \in Mode : SetDeviceSystemMode(r, d, m)
    \/ \E src, dest \in Location : TransferDevices(r, src, dest)
    \/ \E src \in Location : TransferLocation(r, src)
    \/ CloneLocation(r) \/ MarkMerged(r) \/ Moves(r)
    \/ \E l \in Location : ReadDevices(r, l)
    \/ \E s \in Slot : SaveMode(r, s) \/ \E d \in Device : ForDevice(r, s, d)

LEMMA StepCases ==
    ASSUME [Next]_vars
    PROVE  \/ UNCHANGED vars
           \/ \E d \in Device : Lock(d)
           \/ \E r \in Request : ActionOf(r)
  BY Zenon DEF Next, Work, Moves, ForDevice, ActionOf

(* A step changes one request.                                             *)
LEMMA ActorAlone ==
    ASSUME TypeOK, NEW r \in Request, ActionOf(r)
    PROVE  \A q \in Request \ {r} : request'[q] = request[q]
<1>1. ASSUME NEW x, request' = [request EXCEPT ![r] = x]
      PROVE  \A q \in Request \ {r} : request'[q] = request[q]
  BY <1>1 DEF TypeOK
<1>2. CASE \/ \E l \in Location, m \in Mode, c \in BOOLEAN : SetSystemMode(r, l, m, c)
           \/ \E d \in Device, m \in Mode : SetDeviceSystemMode(r, d, m)
           \/ \E src, dest \in Location : TransferDevices(r, src, dest)
           \/ \E src \in Location : TransferLocation(r, src)
           \/ CloneLocation(r) \/ MarkMerged(r)
  BY <1>1, <1>2 DEF SetSystemMode, SetDeviceSystemMode, TransferDevices, TransferLocation, CloneLocation,
       MarkMerged, Begin
<1>3. CASE Moves(r)
  BY <1>3, TransferStep DEF Moves
<1>4. CASE \/ \E l \in Location : ReadDevices(r, l)
           \/ \E s \in Slot : SaveMode(r, s) \/ \E d \in Device : ForDevice(r, s, d)
  <2>1. GoesOn(r)
    BY <1>4, ModeStep, Zenon
  <2> QED
    BY <2>1 DEF GoesOn
<1> QED
  BY <1>2, <1>3, <1>4 DEF ActionOf

(* Only a command changes what a device was last sent.                     *)
Uncommanded == actual' = actual /\ crossed \subseteq crossed'

LEMMA CommandFrame ==
    ASSUME NEW r \in Request, ActionOf(r)
    PROVE  Uncommanded \/ \E s \in Slot, d \in Device : Command(r, s, d)
<1>1. \A l \in Location, m \in Mode, c \in BOOLEAN : SetSystemMode(r, l, m, c) => Uncommanded
  BY DEF SetSystemMode, Uncommanded
<1>2. \A d \in Device, m \in Mode : SetDeviceSystemMode(r, d, m) => Uncommanded
  BY DEF SetDeviceSystemMode, Cross, Uncommanded
<1>3. \A src, dest \in Location : TransferDevices(r, src, dest) => Uncommanded
  BY DEF TransferDevices, Cross, Uncommanded
<1>4. \A src \in Location : TransferLocation(r, src) => Uncommanded
  BY DEF TransferLocation, Uncommanded
<1>5. CloneLocation(r) => Uncommanded
  BY DEF CloneLocation, Cross, Uncommanded
<1>6. MarkMerged(r) => Uncommanded
  BY DEF MarkMerged, Uncommanded
<1>7. Moves(r) => Uncommanded
  BY DEF Moves, ReadRecord, RemoveRecord, PutRecord, PutFails, Uncommanded
<1>8. \A l \in Location : ReadDevices(r, l) => Uncommanded
  BY DEF ReadDevices, Cross, Uncommanded
<1>9. \A s \in Slot : SaveMode(r, s) => Uncommanded
  BY DEF SaveMode, Uncommanded
<1>10. \A s \in Slot, d \in Device : Record(r, s, d) => Uncommanded
  BY DEF Record, Uncommanded
<1>11. \A s \in Slot, d \in Device : CommandFails(r, s, d) => Uncommanded
  BY DEF CommandFails, Uncommanded
<1>12. \A s \in Slot, d \in Device : RecordFails(r, s, d) => Uncommanded
  BY DEF RecordFails, Uncommanded
<1> QED
  BY <1>1, <1>2, <1>3, <1>4, <1>5, <1>6, <1>7, <1>8, <1>9, <1>10, <1>11, <1>12, Zenon DEF ActionOf, ForDevice

LEMMA ActualStep ==
    ASSUME TypeOK, actual \in [Device -> Mode], [Next]_vars
    PROVE  actual' \in [Device -> Mode] /\ crossed \subseteq crossed'
<1>1. \A d \in Device : Lock(d) => Uncommanded
  BY DEF Lock, Uncommanded
<1>2. UNCHANGED vars => Uncommanded
  BY DEF vars, Uncommanded
<1>3. Uncommanded \/ \E r \in Request, s \in Slot, d \in Device : Command(r, s, d)
  BY <1>1, <1>2, CommandFrame, StepCases
<1>4. ASSUME NEW r \in Request, NEW s \in Slot, NEW d \in Device, Command(r, s, d)
      PROVE  actual' \in [Device -> Mode] /\ crossed' = crossed
  BY <1>4, Fields DEF Command, ModeRequest
<1> QED
  BY <1>3, <1>4 DEF Uncommanded

(* A request for a mode took a step of its own, or none.                   *)
LEMMA ModeActions ==
    ASSUME TypeOK, [Next]_vars, NEW q \in Request, request'[q].kind = "mode"
    PROVE  \/ request'[q] = request[q]
           \/ \E l \in Location, m \in Mode, c \in BOOLEAN : SetSystemMode(q, l, m, c)
           \/ \E d \in Device, m \in Mode : SetDeviceSystemMode(q, d, m)
           \/ \E l \in Location : ReadDevices(q, l)
           \/ \E s \in Slot : SaveMode(q, s) \/ \E d \in Device : ForDevice(q, s, d)
<1>1. ASSUME NEW r \in Request, ActionOf(r)
      PROVE  \/ request'[q] = request[q] \/ request'[q].kind = "transfer"
             \/ \E l \in Location, m \in Mode, c \in BOOLEAN : SetSystemMode(q, l, m, c)
             \/ \E d \in Device, m \in Mode : SetDeviceSystemMode(q, d, m)
             \/ \E l \in Location : ReadDevices(q, l)
             \/ \E s \in Slot : SaveMode(q, s) \/ \E d \in Device : ForDevice(q, s, d)
  <2>1. \A x \in Request \ {r} : request'[x] = request[x]
    BY <1>1, ActorAlone
  <2>2. CASE r # q
    BY <2>1, <2>2
  <2>3. CASE r = q
    <3>1. ASSUME \/ \E src, dest \in Location : TransferDevices(q, src, dest)
                 \/ \E src \in Location : TransferLocation(q, src)
                 \/ CloneLocation(q) \/ MarkMerged(q)
          PROVE  request'[q].kind = "transfer"
      BY <3>1, Fields DEF TransferDevices, TransferLocation, CloneLocation, MarkMerged, Begin, Moving, TypeOK,
           MoveRequest, IsMoving
    <3>2. ASSUME Moves(q) PROVE request'[q].kind = "transfer"
      BY <3>2, TransferStep DEF Moves, IsMoving
    <3> QED
      BY <1>1, <2>3, <3>1, <3>2 DEF ActionOf
  <2> QED
    BY <2>2, <2>3
<1>2. (\E d \in Device : Lock(d)) \/ UNCHANGED vars => request' = request
  BY DEF Lock, vars
<1> QED
  BY <1>1, <1>2, StepCases

LEMMA CallsStep ==
    ASSUME TypeOK, [Next]_vars, \A r \in Request : request[r].kind = "mode" => CallsOfTop(r),
           NEW q \in Request, request'[q].kind = "mode"
    PROVE  CallsOfTop(q)'
<1>1. CASE request'[q] = request[q]
  BY <1>1 DEF CallsOfTop
<1>2. ASSUME NEW l \in Location, NEW m \in Mode, NEW c \in BOOLEAN, SetSystemMode(q, l, m, c)
      PROVE  CallsOfTop(q)'
  <2>1. request'[q].top = l /\ request'[q].call = [s \in Slot |-> IF s = l THEN Reading ELSE NoCall]
    BY <1>2 DEF SetSystemMode, Begin, TypeOK
  <2>2. l # Direct /\ Direct \in Slot
    BY LocationDevicesAssumption DEF Slot
  <2> QED
    BY <2>1, <2>2 DEF CallsOfTop, NoCall
<1>3. ASSUME NEW d \in Device, NEW m \in Mode, SetDeviceSystemMode(q, d, m)
      PROVE  CallsOfTop(q)'
  <2>1. /\ request'[q].top = Direct
        /\ request'[q].call = [s \in Slot |-> IF s = Direct THEN Working({d}) ELSE NoCall]
    BY <1>3 DEF SetDeviceSystemMode, Begin, TypeOK
  <2>2. Direct \notin Location
    BY LocationDevicesAssumption
  <2> QED
    BY <2>1, <2>2 DEF CallsOfTop, NoCall, Working, Slot
<1>4. ASSUME NEW l \in Location, ReadDevices(q, l)
      PROVE  CallsOfTop(q)'
  <2> DEFINE top == request[q].top
             old == request[q].call
             new == request'[q].call
  <2>1. request[q].kind = "mode" /\ old[l].pc = "read" /\ GoesOn(q)
    BY <1>4, ReadCall
  <2>2. CallsOfTop(q)
    BY <2>1
  <2>3. top \in Location /\ Called(q, l) \in SUBSET (Location \ {l})
    BY <2>1, <2>2, CalledOnce
  <2>4. Direct \notin Location /\ Location \subseteq Slot /\ Direct \in Slot
    BY LocationDevicesAssumption DEF Slot
  <2>5. l = top \/ (Called(q, l) = {} /\ old[top].pc # "read")
    BY <2>1, <2>2, <2>4 DEF Called, CallsOfTop
  <2>6. /\ new[l].pc # "read"
        /\ \A s \in Slot \ ({l} \cup Called(q, l)) : new[s] = old[s]
    <3> DEFINE unlocked == DevicesAt(l) \ locked
    <3>1. \/ new[l].pc = "failed" /\ \A s \in Slot \ {l} : new[s] = old[s]
          \/ /\ Leaves(new[l], unlocked, {}, FALSE)
             /\ \A s \in Slot \ ({l} \cup Called(q, l)) : new[s] = old[s]
      BY <1>4, <2>2, ReadMakesCalls
    <3> HIDE DEF unlocked
    <3> QED
      BY <3>1 DEF Leaves
  <2>7. new[Direct].pc = "none" /\ new[top].pc # "read"
    BY <2>2, <2>3, <2>4, <2>5, <2>6 DEF CallsOfTop
  <2> QED
    BY <2>1, <2>3, <2>4, <2>7 DEF CallsOfTop, GoesOn
<1>5. ASSUME NEW s \in Slot, SaveMode(q, s) \/ \E d \in Device : ForDevice(q, s, d)
      PROVE  CallsOfTop(q)'
  <2>1. /\ request[q].kind = "mode" /\ request[q].call[s].pc = "work" /\ GoesOn(q)
        /\ request'[q].call[s].pc # "read" /\ request'[q].call[s].pc # "none"
        /\ \A t \in Slot \ {s} : request'[q].call[t] = request[q].call[t]
    <3>1. CASE SaveMode(q, s)
      BY <3>1, SaveCall
    <3>2. CASE \E d \in Device : ForDevice(q, s, d)
      <4>1. PICK d \in Device : ForDevice(q, s, d)
        BY <3>2
      <4>2. request'[q].call[s].pc = "work"
        BY <4>1, DeviceCall, ZenonT(40) DEF ForDevice, Leaves
      <4>3. /\ request[q].kind = "mode" /\ request[q].call[s] \in WorkType /\ GoesOn(q)
            /\ \A t \in Slot \ {s} : request'[q].call[t] = request[q].call[t]
        BY <4>1, DeviceCall
      <4> QED
        BY <4>2, <4>3 DEF WorkType
    <3> QED
      BY <1>5, <3>1, <3>2
  <2>2. CallsOfTop(q) /\ request[q].top \in Slot
    BY <2>1, Fields DEF ModeRequest
  <2>3. Location \subseteq Slot /\ Direct \in Slot
    BY DEF Slot
  <2> QED
    BY <2>1, <2>2, <2>3 DEF CallsOfTop, GoesOn
<1> QED
  BY <1>1, <1>2, <1>3, <1>4, <1>5, ModeActions

LEMMA HoldStep ==
    ASSUME TypeOK, actual \in [Device -> Mode], HoldInv, [Next]_vars
    PROVE  HoldInv'
<1>1. \A r \in Request : request'[r].kind = "mode" => CallsOfTop(r)'
  BY CallsStep DEF HoldInv
<1>2. ASSUME NEW d \in Device, d \notin crossed' PROVE DeviceInv(d)'
  <2>1. DeviceInv(d)
    BY <1>2, ActualStep DEF HoldInv
  <2>2. CASE UNCHANGED vars \/ \E e \in Device : Lock(e)
    <3>1. device' = device /\ actual' = actual /\ request' = request
      BY <2>2 DEF vars, Lock
    <3> QED
      BY <2>1, <3>1 DEF DeviceInv, Held, HolderTrue, InCommand, InRecord, InStep, IsMoving, Consistent,
           StepIsTrue, Recorded
  <2>3. ASSUME NEW r \in Request, ActionOf(r) PROVE DeviceInv(d)'
    <3>1. ASSUME NEW l \in Location, NEW m \in Mode, NEW c \in BOOLEAN, SetSystemMode(r, l, m, c)
          PROVE  DeviceInv(d)'
      BY <2>1, <3>1, BeginModeHold
    <3>2. ASSUME NEW e \in Device, NEW m \in Mode, SetDeviceSystemMode(r, e, m)
          PROVE  DeviceInv(d)'
      BY <1>2, <2>1, <3>2, BeginDirectHold
    <3>3. ASSUME NEW src \in Location, NEW dest \in Location, TransferDevices(r, src, dest)
          PROVE  DeviceInv(d)'
      <4>1. /\ request[r] = Idle /\ device' = device /\ actual' = actual /\ Cross(r, DevicesAt(src))
            /\ request' = [request EXCEPT ![r] = Moving(src, dest, DevicesAt(src))]
        BY <3>3 DEF TransferDevices, Begin
      <4>2. request[r].kind # "mode" /\ ~IsMoving(r)
        BY <4>1 DEF Idle, IsMoving
      <4> QED
        BY <1>2, <2>1, <4>1, <4>2, BeginMoveHold
    <3>4. ASSUME NEW src \in Location, TransferLocation(r, src)
          PROVE  DeviceInv(d)'
      BY <2>1, <3>4, BeginCloneHold
    <3>5. ASSUME CloneLocation(r) PROVE DeviceInv(d)'
      <4> DEFINE src == request[r].src
      <4>1. /\ request[r].kind = "transfer" /\ request[r].pc = "clone"
            /\ device' = device /\ actual' = actual /\ Cross(r, DevicesAt(src))
            /\ request' = [request EXCEPT ![r] = Moving(src, CloneId[r], DevicesAt(src))]
        BY <3>5 DEF CloneLocation
      <4>2. request[r].kind # "mode" /\ ~IsMoving(r) /\ src \in Location /\ CloneId[r] \in Location
        BY <4>1, Fields, LocationDevicesAssumption DEF IsMoving, CloneRequest
      <4> HIDE DEF src
      <4> QED
        BY <1>2, <2>1, <4>1, <4>2, BeginMoveHold
    <3>6. ASSUME MarkMerged(r) PROVE DeviceInv(d)'
      BY <2>1, <3>6, MarkHold
    <3>7. ASSUME Moves(r) PROVE DeviceInv(d)'
      BY <1>2, <2>1, <3>7, TransferHold DEF Moves
    <3>8. ASSUME NEW l \in Location, ReadDevices(r, l) PROVE DeviceInv(d)'
      <4>1. CallsOfTop(r)
        BY <3>8 DEF HoldInv, ReadDevices
      <4> QED
        BY <1>2, <2>1, <3>8, <4>1, ReadHold
    <3>9. ASSUME NEW s \in Slot, SaveMode(r, s) PROVE DeviceInv(d)'
      BY <2>1, <3>9, SaveHold
    <3>10. ASSUME NEW s \in Slot, NEW e \in Device, ForDevice(r, s, e) PROVE DeviceInv(d)'
      <4>1. CallsOfTop(r)
        BY <3>10, DeviceCall DEF HoldInv
      <4> QED
        BY <1>2, <2>1, <3>10, <4>1, ForDeviceHold
    <3> QED
      BY <2>3, <3>1, <3>2, <3>3, <3>4, <3>5, <3>6, <3>7, <3>8, <3>9, <3>10, Zenon DEF ActionOf
  <2> QED
    BY <2>2, <2>3, StepCases
<1> QED
  BY <1>1, <1>2 DEF HoldInv

-----------------------------------------------------------------------------
(* What a step does to what others see of it.                              *)
LEMMA Touched ==
    ASSUME touched \in Others, NEW r \in Request, NEW x \in Location \cup Device, Touch(r, x)
    PROVE  /\ touched' \in Others
           /\ \A q \in Request : touched[q] \subseteq touched'[q]
           /\ \A q \in Request \ {r} : x \in touched'[q]
  BY DEF Touch, Others

(* A request that is under way sees more and more of the others' work.     *)
SeesMore(q) == touched[q] \subseteq touched'[q] /\ locked' \subseteq locked \cup touched'[q]

LEMMA TouchStep ==
    ASSUME TypeOK, touched \in Others, locked \in SUBSET Device, [Next]_vars
    PROVE  /\ touched' \in Others /\ locked' \in SUBSET Device
           /\ \A q \in Request : request[q] # Idle => SeesMore(q)
<1> DEFINE Goal == /\ touched' \in Others /\ locked' \in SUBSET Device
                   /\ \A q \in Request : request[q] # Idle => SeesMore(q)
<1>1. touched' = touched /\ locked' = locked => Goal
  BY DEF SeesMore
<1>2. ASSUME NEW r \in Request, NEW x \in Location \cup Device, Touch(r, x), locked' = locked
      PROVE  Goal
  BY <1>2, Touched DEF SeesMore
<1>3. ASSUME NEW r \in Request, request[r] = Idle, touched' = [touched EXCEPT ![r] = locked], locked' = locked
      PROVE  Goal
  BY <1>3 DEF SeesMore, Others
<1>4. ASSUME NEW d \in Device, Lock(d) PROVE Goal
  BY <1>4 DEF Lock, SeesMore, Others
<1>5. ASSUME NEW r \in Request, ActionOf(r) PROVE Goal
  <2>1. ASSUME NEW l \in Location, NEW m \in Mode, NEW c \in BOOLEAN, SetSystemMode(r, l, m, c) PROVE Goal
    BY <1>3, <2>1 DEF SetSystemMode, Begin
  <2>2. ASSUME NEW d \in Device, NEW m \in Mode, SetDeviceSystemMode(r, d, m) PROVE Goal
    BY <1>3, <2>2 DEF SetDeviceSystemMode, Begin
  <2>3. ASSUME NEW src \in Location, NEW dest \in Location, TransferDevices(r, src, dest) PROVE Goal
    BY <1>1, <2>3 DEF TransferDevices
  <2>4. ASSUME NEW src \in Location, TransferLocation(r, src) PROVE Goal
    BY <1>1, <2>4 DEF TransferLocation
  <2>5. CloneLocation(r) => Goal
    BY <1>1 DEF CloneLocation
  <2>6. MarkMerged(r) => Goal
    BY <1>1 DEF MarkMerged
  <2>7. ASSUME NEW d \in Device, ReadRecord(r, d) \/ RemoveRecord(r, d) \/ PutFails(r, d) PROVE Goal
    BY <1>1, <2>7 DEF ReadRecord, RemoveRecord, PutFails
  <2>8. ASSUME NEW d \in Device, PutRecord(r, d) PROVE Goal
    BY <1>2, <2>8 DEF PutRecord
  <2>9. ASSUME NEW l \in Location, ReadDevices(r, l) PROVE Goal
    BY <1>1, <2>9 DEF ReadDevices
  <2>10. ASSUME NEW s \in Slot, SaveMode(r, s) PROVE Goal
    <3>1. (touched' = touched \/ (s # Direct /\ Touch(r, s))) /\ locked' = locked
      BY <2>10 DEF SaveMode
    <3> QED
      BY <1>1, <1>2, <3>1 DEF Slot
  <2>11. ASSUME NEW s \in Slot, NEW d \in Device, Command(r, s, d) \/ Record(r, s, d) PROVE Goal
    BY <1>2, <2>11 DEF Command, Record
  <2>12. ASSUME NEW s \in Slot, NEW d \in Device, CommandFails(r, s, d) \/ RecordFails(r, s, d) PROVE Goal
    BY <1>1, <2>12 DEF CommandFails, RecordFails
  <2> HIDE DEF Goal
  <2> QED
    BY <1>5, <2>1, <2>2, <2>3, <2>4, <2>5, <2>6, <2>7, <2>8, <2>9, <2>10, <2>11, <2>12, Zenon
       DEF ActionOf, Moves, ForDevice
<1> QED
  BY <1>1, <1>4, <1>5, StepCases DEF vars

(* A known location stays, and only SaveMode writes its mode.              *)
LEMMA LocationChange ==
    ASSUME TypeOK, ClonesAreNew, [Next]_vars, NEW l \in Location
    PROVE  /\ Known(l) => /\ Known(l)'
                          /\ \/ location'[l].mode = location[l].mode
                             \/ \E r \in Request : SaveMode(r, l) /\ location'[l].mode = request[r].target
           /\ Known(l)' => Known(l) \/ \E r \in Request : CloneLocation(r) /\ l = CloneId[r]
<1> DEFINE Goal == /\ Known(l) => /\ Known(l)'
                                  /\ \/ location'[l].mode = location[l].mode
                                     \/ \E r \in Request : SaveMode(r, l) /\ location'[l].mode = request[r].target
                   /\ Known(l)' => Known(l) \/ \E r \in Request : CloneLocation(r) /\ l = CloneId[r]
<1>1. location'[l] = location[l] => Goal
  BY DEF Known
<1>2. ASSUME NEW r \in Request, NEW s \in Slot, SaveMode(r, s)
      PROVE  Goal
  <2>1. SUFFICES ASSUME s = l, location' = [location EXCEPT ![l].mode = request[r].target]
                 PROVE  Goal
    BY <1>1, <1>2 DEF SaveMode, TypeOK
  <2> DEFINE new == [location[l] EXCEPT !.mode = request[r].target]
  <2>2. location'[l] = new
    BY <2>1 DEF TypeOK
  <2>3. CASE Known(l)
    <3>1. location[l] \in [state : {"known"}, mode : Mode, merged : BOOLEAN]
      BY <2>3 DEF TypeOK, LocationType, Known
    <3>2. new.mode = request[r].target /\ new.state = "known"
      BY <3>1
    <3>3. new # Unknown
      BY <3>2 DEF Unknown
    <3> HIDE DEF new
    <3> QED
      BY <1>2, <2>1, <2>2, <2>3, <3>2, <3>3 DEF Known
  <2>4. CASE ~Known(l)
    <3>1. new = Unknown
      BY <2>4, UnknownStays DEF Known
    <3> QED
      BY <2>2, <2>4, <3>1 DEF Known
  <2> QED
    BY <2>3, <2>4
<1>3. ASSUME NEW r \in Request, CloneLocation(r)
      PROVE  Goal
  <2>1. CASE l # CloneId[r]
    BY <1>1, <1>3, <2>1 DEF CloneLocation, TypeOK
  <2>2. CASE l = CloneId[r]
    <3>1. ~Known(l)
      BY <1>3, <2>2 DEF CloneLocation, ClonesAreNew
    <3> QED
      BY <1>3, <2>2, <3>1
  <2> QED
    BY <2>1, <2>2
<1>4. ASSUME NEW r \in Request, MarkMerged(r)
      PROVE  Goal
  <2>1. SUFFICES ASSUME location' = [location EXCEPT ![l].merged = TRUE]
                 PROVE  Goal
    BY <1>1, <1>4 DEF MarkMerged, TypeOK
  <2> DEFINE new == [location[l] EXCEPT !.merged = TRUE]
  <2>2. location'[l] = new
    BY <2>1 DEF TypeOK
  <2>3. CASE Known(l)
    <3>1. location[l] \in [state : {"known"}, mode : Mode, merged : BOOLEAN]
      BY <2>3 DEF TypeOK, LocationType, Known
    <3>2. new.mode = location[l].mode /\ new.state = "known"
      BY <3>1
    <3>3. new # Unknown
      BY <3>2 DEF Unknown
    <3> HIDE DEF new
    <3> QED
      BY <2>2, <2>3, <3>2, <3>3 DEF Known
  <2>4. CASE ~Known(l)
    <3>1. new = Unknown
      BY <2>4, UnknownStays DEF Known
    <3> QED
      BY <2>2, <2>4, <3>1 DEF Known
  <2> QED
    BY <2>3, <2>4
<1>5. \/ location' = location
      \/ \E r \in Request : CloneLocation(r) \/ MarkMerged(r) \/ \E s \in Slot : SaveMode(r, s)
  BY Frames, LockFrame, Zenon DEF Next, Work, vars, Still
<1> QED
  BY <1>1, <1>2, <1>3, <1>4, <1>5

(* No request is forgotten, and a request to clone is a new one.           *)
LEMMA NewOrSame ==
    ASSUME TypeOK, [Next]_vars, NEW q \in Request,
           request'[q] = Idle \/ (request'[q].kind = "transfer" /\ request'[q].pc = "clone")
    PROVE  /\ request[q] = Idle \/ (request[q].kind = "transfer" /\ request[q].pc = "clone")
           /\ ~CloneLocation(q)
<1>1. ASSUME CloneLocation(q) PROVE FALSE
  <2>1. request'[q] = Moving(request[q].src, CloneId[q], DevicesAt(request[q].src))
    BY <1>1 DEF CloneLocation, TypeOK
  <2> QED
    BY <2>1 DEF Moving, Idle
<1>2. CASE request'[q] = request[q]
  BY <1>1, <1>2
<1>3. CASE request'[q] # request[q]
  <2>1. \E r \in Request : ActionOf(r)
    BY <1>3, StepCases DEF vars, Lock
  <2>2. ActionOf(q)
    BY <1>3, <2>1, ActorAlone
  <2>3. ASSUME \/ \E l \in Location, m \in Mode, c \in BOOLEAN : SetSystemMode(q, l, m, c)
               \/ \E d \in Device, m \in Mode : SetDeviceSystemMode(q, d, m)
               \/ \E src, dest \in Location : TransferDevices(q, src, dest)
               \/ \E src \in Location : TransferLocation(q, src)
        PROVE  request[q] = Idle
    BY <2>3 DEF SetSystemMode, SetDeviceSystemMode, TransferDevices, TransferLocation, Begin
  <2>4. ~MarkMerged(q)
    <3> SUFFICES ASSUME MarkMerged(q) PROVE FALSE
      OBVIOUS
    <3> DEFINE pc == IF request[q].failed THEN "failed" ELSE "done"
    <3>1. request[q] \in MoveRequest /\ request' = [request EXCEPT ![q].pc = pc]
      BY Fields DEF MarkMerged, IsMoving
    <3>2. request'[q].kind = "transfer" /\ request'[q].pc = pc
      BY <3>1 DEF MoveRequest, TypeOK
    <3> QED
      BY <3>2 DEF Idle
  <2>5. ~Moves(q)
    <3> SUFFICES ASSUME Moves(q) PROVE FALSE
      OBVIOUS
    <3>1. IsMoving(q)'
      BY TransferStep DEF Moves
    <3> QED
      BY <3>1 DEF IsMoving, Idle
  <2>6. ~(\/ \E l \in Location : ReadDevices(q, l)
          \/ \E s \in Slot : SaveMode(q, s) \/ \E d \in Device : ForDevice(q, s, d))
    <3> SUFFICES ASSUME \/ \E l \in Location : ReadDevices(q, l)
                        \/ \E s \in Slot : SaveMode(q, s) \/ \E d \in Device : ForDevice(q, s, d)
                 PROVE  FALSE
      OBVIOUS
    <3>1. GoesOn(q)
      BY ModeStep, Zenon
    <3> QED
      BY <3>1 DEF GoesOn, Idle
  <2> QED
    BY <1>1, <2>2, <2>3, <2>4, <2>5, <2>6 DEF ActionOf
<1> QED
  BY <1>2, <1>3

LEMMA ClonesStep ==
    ASSUME TypeOK, ClonesAreNew, [Next]_vars
    PROVE  ClonesAreNew'
<1>1. ASSUME NEW l \in Location \ Fresh PROVE Known(l)'
  BY LocationChange DEF ClonesAreNew
<1>2. ASSUME NEW q \in Request,
             request'[q] = Idle \/ (request'[q].kind = "transfer" /\ request'[q].pc = "clone")
      PROVE  ~Known(CloneId[q])'
  <2>1. CloneId[q] \in Location
    BY LocationDevicesAssumption
  <2>2. ~Known(CloneId[q]) /\ ~CloneLocation(q)
    BY <1>2, NewOrSame DEF ClonesAreNew
  <2>3. \A r \in Request : CloneId[r] = CloneId[q] => r = q
    BY LocationDevicesAssumption
  <2>4. Known(CloneId[q])' => Known(CloneId[q]) \/ \E r \in Request : CloneLocation(r) /\ CloneId[q] = CloneId[r]
    BY <2>1, LocationChange
  <2> QED
    BY <2>2, <2>3, <2>4
<1> QED
  BY <1>1, <1>2 DEF ClonesAreNew

-----------------------------------------------------------------------------
(* The second part of the invariant: what a call has done is not undone.   *)

(* Where no other request has been at work, a device has gone or stays as  *)
(* it was, or the request's own mode is now its mode.                      *)
Undisturbed(q, d) ==
    /\ actual'[d] = actual[d] \/ actual'[d] = request[q].target
    /\ \/ device'[d] = device[d]
       \/ ~Recorded(d)'
       \/ Recorded(d) /\ device'[d].at = device[d].at /\ device'[d].mode = request[q].target

LEMMA DeviceWorld ==
    ASSUME TypeOK, actual \in [Device -> Mode], touched \in Others, [Next]_vars,
           NEW q \in Request, request[q].kind = "mode", NEW d \in Device, d \notin touched'[q]
    PROVE  Undisturbed(q, d)
<1>1. device'[d] = device[d] /\ actual'[d] = actual[d] => Undisturbed(q, d)
  BY DEF Undisturbed
<1>2. ASSUME NEW r \in Request, NEW s \in Slot, NEW e \in Device, Command(r, s, e)
      PROVE  Undisturbed(q, d)
  <2>1. actual' = [actual EXCEPT ![e] = request[r].target] /\ device' = device /\ Touch(r, e)
    BY <1>2 DEF Command
  <2>2. CASE d # e
    BY <1>1, <2>1, <2>2
  <2>3. CASE d = e
    <3>1. r = q
      BY <2>1, <2>3, Touched
    <3> QED
      BY <2>1, <2>3, <3>1 DEF Undisturbed
  <2> QED
    BY <2>2, <2>3
<1>3. ASSUME NEW r \in Request, NEW s \in Slot, NEW e \in Device, Record(r, s, e)
      PROVE  Undisturbed(q, d)
  <2>1. SUFFICES ASSUME Recorded(e), device' = [device EXCEPT ![e].mode = request[r].target], d = e
                 PROVE  Undisturbed(q, d)
    BY <1>1, <1>3 DEF Record, TypeOK
  <2>2. r = q /\ actual' = actual
    BY <1>3, <2>1, Touched DEF Record
  <2> DEFINE new == [device[d] EXCEPT !.mode = request[q].target]
  <2>3. device'[d] = new
    BY <2>1, <2>2 DEF TypeOK
  <2>4. new.at = device[d].at /\ new.mode = request[q].target
    BY <2>1, DeviceCases
  <2> HIDE DEF new
  <2> QED
    BY <2>1, <2>2, <2>3, <2>4 DEF Undisturbed
<1>4. ASSUME NEW r \in Request, NEW e \in Device, RemoveRecord(r, e)
      PROVE  Undisturbed(q, d)
  <2>1. (device' = device \/ device' = [device EXCEPT ![e] = Gone]) /\ actual' = actual
    BY <1>4 DEF RemoveRecord
  <2> QED
    BY <1>1, <2>1 DEF TypeOK, Undisturbed, Recorded
<1>5. ASSUME NEW r \in Request, NEW e \in Device, PutRecord(r, e)
      PROVE  Undisturbed(q, d)
  <2> DEFINE new == [at |-> request[r].dest, mode |-> request[r].step[e].mode]
  <2>1. device' = [device EXCEPT ![e] = new] /\ actual' = actual /\ Touch(r, e) /\ r # q
    BY <1>5 DEF PutRecord, AtStep
  <2>2. d # e
    BY <2>1, Touched
  <2> HIDE DEF new
  <2> QED
    BY <1>1, <2>1, <2>2 DEF TypeOK
<1>6. \/ device' = device /\ actual' = actual
      \/ \E r \in Request, e \in Device :
            RemoveRecord(r, e) \/ PutRecord(r, e) \/ \E s \in Slot : Command(r, s, e) \/ Record(r, s, e)
  <2>1. \A e \in Device : Lock(e) => device' = device /\ actual' = actual
    BY DEF Lock
  <2>2. ASSUME NEW r \in Request, ActionOf(r)
        PROVE  \/ actual' = actual
               \/ \E s \in Slot, e \in Device : Command(r, s, e)
    BY <2>2, CommandFrame DEF Uncommanded
  <2>3. \/ device' = device
        \/ \E r \in Request, e \in Device : \/ RemoveRecord(r, e) \/ PutRecord(r, e)
                                            \/ \E s \in Slot : Record(r, s, e)
    BY Frames, LockFrame, Zenon DEF Next, Work, vars, Still
  <2>4. UNCHANGED vars => device' = device /\ actual' = actual
    BY DEF vars
  <2>5. \A r \in Request, e \in Device, s \in Slot : Command(r, s, e) => device' = device
    BY DEF Command
  <2> QED
    BY <2>1, <2>2, <2>3, <2>4, <2>5, StepCases
<1> QED
  BY <1>1, <1>2, <1>3, <1>4, <1>5, <1>6

LEMMA LocationWorld ==
    ASSUME TypeOK, touched \in Others, ClonesAreNew, [Next]_vars,
           NEW q \in Request, NEW l \in Location, Known(l), l \notin touched'[q]
    PROVE  Known(l)' /\ location'[l].mode \in {location[l].mode, request[q].target}
<1>1. ASSUME NEW r \in Request, SaveMode(r, l), location'[l].mode = request[r].target,
             location'[l].mode # location[l].mode
      PROVE  r = q
  <2>1. CASE Touch(r, l)
    BY <2>1, Touched
  <2>2. CASE ~Touch(r, l)
    <3>1. location' = location
      BY <1>1, <2>2, LocationDevicesAssumption DEF SaveMode
    <3> QED
      BY <1>1, <3>1
  <2> QED
    BY <2>1, <2>2
<1> QED
  BY <1>1, LocationChange

(* What a call knows stays true while the call itself takes no step.       *)
LEMMA CallKept ==
    ASSUME TypeOK, actual \in [Device -> Mode], touched \in Others, ClonesAreNew, [Next]_vars,
           NEW q \in Request, request[q].kind = "mode", touched[q] \subseteq touched'[q],
           request'[q].target = request[q].target,
           NEW l \in Location, CallInv(q, l), request'[q].call[l] = request[q].call[l]
    PROVE  CallInv(q, l)'
<1> DEFINE call == request[q].call[l]
<1>1. ASSUME NEW d \in Device, d \in DevicesAt(l)', d \notin touched'[q]
      PROVE  /\ d \in DevicesAt(l) /\ d \notin touched[q]
             /\ actual[d] = request[q].target => actual'[d] = request[q].target
             /\ HasMode(q, d) => HasMode(q, d)'
  <2>1. Undisturbed(q, d)
    BY <1>1, DeviceWorld
  <2> QED
    BY <1>1, <2>1 DEF Undisturbed, DevicesAt, HasMode, Recorded
<1>2. call.pc # "none" => Known(l)'
  BY LocationChange DEF CallInv
<1>3. ASSUME call.pc = "work", ~call.failed, NEW d \in Device, d \in DevicesAt(l)', d \notin touched'[q]
      PROVE  \/ d \in call.command
             \/ d \in call.record /\ actual'[d] = request[q].target
             \/ HasMode(q, d)'
  BY <1>1, <1>3 DEF CallInv
<1>4. ASSUME call.pc = "done"
      PROVE  /\ l \in touched'[q] \/ location'[l].mode = request[q].target
             /\ \A d \in Device : d \in DevicesAt(l)' /\ d \notin touched'[q] => HasMode(q, d)'
  <2>1. \A d \in Device : d \in DevicesAt(l)' /\ d \notin touched'[q] => HasMode(q, d)'
    BY <1>1, <1>4 DEF CallInv
  <2>2. l \in touched[q] \/ location[l].mode = request[q].target
    BY <1>4 DEF CallInv
  <2>3. Known(l)
    BY <1>4 DEF CallInv
  <2> QED
    BY <2>1, <2>2, <2>3, LocationWorld
<1>5. DevicesAt(l)' \subseteq Device
  BY DEF DevicesAt
<1> QED
  BY <1>2, <1>3, <1>4, <1>5 DEF CallInv

(* What is used of the invariant, and what each step preserves of it.      *)
Progress(q) == request[q].top # Direct => CascadeInv(q) /\ \A l \in Location : CallInv(q, l)

Good == /\ TypeOK /\ actual \in [Device -> Mode] /\ touched \in Others /\ ClonesAreNew
        /\ \A r \in Request : request[r].kind = "mode" =>
              CallsOfTop(r) /\ Progress(r) /\ locked \subseteq touched[r]

LEMMA BeginProgress ==
    ASSUME Good, [Next]_vars, NEW q \in Request, NEW l \in Location, NEW m \in Mode, NEW c \in BOOLEAN,
           SetSystemMode(q, l, m, c)
    PROVE  Progress(q)' /\ locked' \subseteq touched'[q]
<1> USE DEF Good
<1>1. request'[q].top = l /\ request'[q].call = [s \in Slot |-> IF s = l THEN Reading ELSE NoCall]
  BY DEF SetSystemMode, Begin, TypeOK
<1>2. \A s \in Location : request'[q].call[s].pc = IF s = l THEN "read" ELSE "none"
  BY <1>1 DEF Reading, NoCall, Slot
<1>3. Known(l)'
  BY DEF SetSystemMode, Known
<1>4. locked' \subseteq touched'[q]
  BY DEF SetSystemMode, Others
<1>5. CascadeInv(q)'
  BY <1>1, <1>2 DEF CascadeInv
<1>6. \A k \in Location : CallInv(q, k)'
  BY <1>2, <1>3 DEF CallInv
<1> QED
  BY <1>4, <1>5, <1>6 DEF Progress

LEMMA ReadProgress ==
    ASSUME Good, [Next]_vars, NEW q \in Request, NEW l \in Location, ReadDevices(q, l),
           touched[q] \subseteq touched'[q]
    PROVE  Progress(q)'
<1> USE DEF Good
<1> DEFINE top == request[q].top
           old == request[q].call
           new == request'[q].call
           unlocked == DevicesAt(l) \ locked
<1>1. request[q].kind = "mode" /\ old[l].pc = "read" /\ GoesOn(q)
  BY ReadCall
<1>2. CallsOfTop(q) /\ Progress(q) /\ locked \subseteq touched[q]
  BY <1>1
<1>3. /\ top \in Location /\ Called(q, l) \in SUBSET (Location \ ({l} \cup Fresh))
      /\ \A s \in Called(q, l) : old[s].pc = "none"
  BY <1>1, <1>2, CalledOnce
<1>4. top # Direct /\ Location \subseteq Slot
  BY <1>3, LocationDevicesAssumption DEF Slot
<1>5. CascadeInv(q) /\ \A k \in Location : CallInv(q, k)
  BY <1>2, <1>4 DEF Progress
<1>6. device' = device /\ location' = location /\ touched' = touched /\ actual' = actual
  BY DEF ReadDevices
<1>7. \/ new[l].pc = "failed" /\ \A s \in Slot \ {l} : new[s] = old[s]
      \/ /\ Leaves(new[l], unlocked, {}, FALSE)
         /\ \A s \in Called(q, l) : new[s].pc = "read"
         /\ \A s \in Slot \ ({l} \cup Called(q, l)) : new[s] = old[s]
  BY <1>2, ReadMakesCalls
<1>8. /\ new[l].pc \in {"failed", "work"} /\ l \in Location
      /\ \A s \in Location \ {l} : new[s] = old[s] \/ (s \in Called(q, l) /\ new[s].pc = "read")
  BY <1>4, <1>7 DEF Leaves
<1>9. CascadeInv(q)'
  <2>1. new[top].pc # "none"
    BY <1>3, <1>5, <1>8 DEF CascadeInv
  <2>2. new[top].pc # "done"
    <3>1. old[top].pc # "done"
      BY <1>1, <1>5 DEF CascadeInv
    <3> QED
      BY <1>3, <1>8, <3>1
  <2>3. ASSUME new[top].pc = "work", request[q].cascade, NEW k \in Below[top] \ {top}
        PROVE  new[k].pc # "none"
    <3>1. k \in Location
      BY <1>3, LocationDevicesAssumption
    <3>2. CASE top = l
      <4>1. k \in Called(q, l)
        BY <2>3, <3>2 DEF Called
      <4>2. new[l].pc # "failed"
        BY <2>3, <3>2
      <4> QED
        BY <1>7, <4>1, <4>2
    <3>3. CASE top # l
      <4>1. new[top] = old[top]
        BY <1>3, <1>8, <2>3, <3>3
      <4>2. old[k].pc # "none"
        BY <1>5, <2>3, <4>1 DEF CascadeInv
      <4> QED
        BY <1>8, <3>1, <4>2
    <3> QED
      BY <3>2, <3>3
  <2> HIDE DEF new
  <2> QED
    BY <1>1, <2>1, <2>2, <2>3 DEF CascadeInv, GoesOn, new
<1>10. ASSUME NEW k \in Location PROVE CallInv(q, k)'
  <2>1. CASE new[k] = old[k]
    BY <1>1, <1>2, <1>5, <2>1, CallKept DEF GoesOn
  <2>2. CASE k \in Called(q, l) /\ new[k].pc = "read"
    <3>1. Known(k)
      BY <1>3, <2>2 DEF ClonesAreNew
    <3> QED
      BY <1>6, <2>2, <3>1 DEF CallInv, Known
  <2>3. CASE k = l
    <3>1. Known(k)
      BY <1>1, <1>5, <2>3 DEF CallInv
    <3>2. CASE new[l].pc = "failed"
      BY <1>6, <2>3, <3>1, <3>2 DEF CallInv, Known
    <3>3. CASE Leaves(new[l], unlocked, {}, FALSE)
      <4>1. new[l].pc = "work" /\ new[l].command = unlocked
        BY <3>3 DEF Leaves
      <4>2. \A d \in DevicesAt(l) \ touched[q] : d \in unlocked
        BY <1>2
      <4>3. DevicesAt(l)' = DevicesAt(l) /\ touched'[q] = touched[q]
        BY <1>6 DEF DevicesAt, Recorded
      <4> HIDE DEF unlocked
      <4> QED
        BY <1>6, <2>3, <3>1, <4>1, <4>2, <4>3 DEF CallInv, Known
    <3> QED
      BY <1>7, <3>2, <3>3
  <2> QED
    BY <1>8, <2>1, <2>2, <2>3
<1> QED
  BY <1>9, <1>10 DEF Progress

LEMMA DeviceProgress ==
    ASSUME Good, [Next]_vars, NEW q \in Request, NEW s \in Slot, NEW e \in Device, ForDevice(q, s, e),
           touched[q] \subseteq touched'[q], request[q].top # Direct
    PROVE  CascadeInv(q)' /\ \A l \in Location : CallInv(q, l)'
<1> USE DEF Good
<1> DEFINE top == request[q].top
           c == request[q].call[s]
           new == request'[q].call[s]
<1>1. /\ request[q].kind = "mode" /\ c \in WorkType /\ GoesOn(q)
      /\ \A t \in Slot \ {s} : request'[q].call[t] = request[q].call[t]
  BY DeviceCall
<1>2. /\ Command(q, s, e) => Leaves(new, c.command \ {e}, c.record \cup {e}, c.failed)
      /\ Record(q, s, e) => Leaves(new, c.command, c.record \ {e}, (c.failed \/ ~Recorded(e)))
      /\ CommandFails(q, s, e) => Leaves(new, c.command \ {e}, c.record, TRUE)
      /\ RecordFails(q, s, e) => Leaves(new, c.command, c.record \ {e}, TRUE)
  BY DeviceCall
<1>3. CallsOfTop(q) /\ CascadeInv(q) /\ \A l \in Location : CallInv(q, l)
  BY <1>1 DEF Progress
<1>4. top \in Location /\ s \in Location /\ Location \subseteq Slot /\ c.pc = "work"
  BY <1>1, <1>3, Fields DEF CallsOfTop, WorkType, ModeRequest, Slot
<1>5. new.pc = "work"
  BY <1>2 DEF ForDevice, Leaves
<1>6. CascadeInv(q)'
  <2>1. \A l \in Location : request'[q].call[l].pc = request[q].call[l].pc
    BY <1>1, <1>4, <1>5
  <2>2. Below[top] \subseteq Location
    BY <1>4, LocationDevicesAssumption
  <2> QED
    BY <1>1, <1>3, <1>4, <2>1, <2>2 DEF CascadeInv, GoesOn
<1>7. ASSUME NEW l \in Location \ {s} PROVE CallInv(q, l)'
  <2>1. request'[q].call[l] = request[q].call[l] /\ CallInv(q, l)
    BY <1>1, <1>3, <1>4
  <2> QED
    BY <1>1, <2>1, CallKept DEF GoesOn
<1>8. CallInv(q, s)'
  <2>1. Known(s)'
    BY <1>3, <1>4, LocationChange DEF CallInv
  <2>2. ASSUME ~new.failed, NEW d \in Device, d \in DevicesAt(s)', d \notin touched'[q]
        PROVE  \/ d \in new.command
               \/ d \in new.record /\ actual'[d] = request[q].target
               \/ HasMode(q, d)'
    <3>1. Undisturbed(q, d)
      BY <1>1, <2>2, DeviceWorld
    <3>2. d \in DevicesAt(s)
      BY <2>2, <3>1 DEF Undisturbed, DevicesAt, Recorded
    <3>3. ~c.failed
      BY <1>1, <1>2, <2>2 DEF ForDevice, Leaves, WorkType
    <3>4. \/ d \in c.command
          \/ d \in c.record /\ actual[d] = request[q].target
          \/ HasMode(q, d)
      BY <1>3, <1>4, <2>2, <3>2, <3>3 DEF CallInv
    <3>5. /\ HasMode(q, d) => HasMode(q, d)'
          /\ actual[d] = request[q].target => actual'[d] = request[q].target
      BY <1>1, <2>2, <3>1 DEF Undisturbed, HasMode, DevicesAt, Recorded, GoesOn
    <3>6. CASE d # e
      <4>1. (d \in new.command <=> d \in c.command) /\ (d \in new.record <=> d \in c.record)
        BY <1>2, <3>6 DEF ForDevice, Leaves
      <4> QED
        BY <3>4, <3>5, <4>1
    <3>7. CASE d = e
      <4>1. CASE Command(q, s, e)
        <5>1. d \in new.record
          BY <1>2, <3>7, <4>1 DEF Leaves
        <5>2. actual'[d] = request[q].target
          BY <3>7, <4>1 DEF Command
        <5> QED
          BY <5>1, <5>2
      <4>2. CASE Record(q, s, e)
        <5>1. new.command = c.command /\ Recorded(e)
          BY <1>1, <1>2, <2>2, <4>2 DEF Leaves, WorkType
        <5>2. actual' = actual /\ device' = [device EXCEPT ![e].mode = request[q].target]
          BY <4>2, <5>1 DEF Record
        <5>3. device'[d].mode = request[q].target
          BY <3>7, <5>1, <5>2, DeviceCases DEF TypeOK
        <5>4. d \in c.command \/ actual'[d] = request[q].target
          BY <3>4, <5>2 DEF HasMode
        <5> QED
          BY <1>1, <5>1, <5>3, <5>4 DEF HasMode, GoesOn
      <4>3. ~CommandFails(q, s, e) /\ ~RecordFails(q, s, e)
        BY <1>2, <2>2 DEF Leaves
      <4> QED
        BY <4>1, <4>2, <4>3 DEF ForDevice
    <3> QED
      BY <3>6, <3>7
  <2>3. DevicesAt(s)' \subseteq Device
    BY DEF DevicesAt
  <2>4. request'[q].target = request[q].target
    BY <1>1 DEF GoesOn
  <2> HIDE DEF c, new
  <2> QED
    BY <1>5, <2>1, <2>2, <2>3, <2>4 DEF CallInv, new
<1> QED
  BY <1>6, <1>7, <1>8

LEMMA SaveProgress ==
    ASSUME Good, [Next]_vars, NEW q \in Request, NEW s \in Slot, SaveMode(q, s),
           touched[q] \subseteq touched'[q], request[q].top # Direct
    PROVE  CascadeInv(q)' /\ \A l \in Location : CallInv(q, l)'
<1> USE DEF Good
<1> DEFINE top == request[q].top
           old == request[q].call
           new == request'[q].call
<1>1. /\ request[q].kind = "mode" /\ old[s].pc = "work" /\ GoesOn(q)
      /\ new[s].pc = IF Rejected(q, s) THEN "failed" ELSE "done"
      /\ \A t \in Slot \ {s} : new[t] = old[t]
  BY SaveCall
<1>2. CallsOfTop(q) /\ CascadeInv(q) /\ \A l \in Location : CallInv(q, l)
  BY <1>1 DEF Progress
<1>3. top \in Location /\ s \in Location /\ Location \subseteq Slot
  BY <1>1, <1>2, Fields DEF CallsOfTop, ModeRequest, Slot
<1>4. /\ old[s].command = {} /\ old[s].record = {} /\ device' = device /\ actual' = actual
      /\ \A t \in SubCalls(q, s) : Ended(old[t])
  BY DEF SaveMode
<1>5. CascadeInv(q)'
  <2>1. new[top].pc # "none"
    BY <1>1, <1>2, <1>3 DEF CascadeInv
  <2>2. ASSUME new[top].pc \in {"work", "done"}, request[q].cascade, NEW k \in Below[top] \ {top}
        PROVE  new[k].pc # "none"
    <3>1. k \in Location
      BY <1>3, LocationDevicesAssumption
    <3>2. old[top].pc \in {"work", "done"}
      BY <1>1, <1>3, <2>2
    <3>3. old[k].pc # "none"
      BY <1>2, <2>2, <3>2 DEF CascadeInv
    <3> QED
      BY <1>1, <1>3, <3>1, <3>3
  <2>3. ASSUME new[top].pc = "done", NEW k \in Location
        PROVE  new[k].pc \in {"none", "done"}
    <3>1. CASE s = top
      <4>1. ~Rejected(q, s)
        BY <1>1, <2>3, <3>1
      <4>2. CASE k = s
        BY <2>3, <3>1, <4>2
      <4>3. CASE k # s
        <5>1. k \in SubCalls(q, s)
          BY <1>3, <3>1, <4>3 DEF SubCalls
        <5>2. old[k].pc \in {"none", "done", "failed"} /\ old[k].pc # "failed"
          BY <1>4, <4>1, <5>1 DEF Ended, Rejected
        <5> QED
          BY <1>1, <1>3, <4>3, <5>2
      <4> QED
        BY <4>2, <4>3
    <3>2. CASE s # top
      <4>1. old[top].pc = "done"
        BY <1>1, <1>3, <2>3, <3>2
      <4>2. old[s].pc \in {"none", "done"}
        BY <1>2, <1>3, <4>1 DEF CascadeInv
      <4> QED
        BY <1>1, <4>2
    <3> QED
      BY <3>1, <3>2
  <2> HIDE DEF new
  <2> QED
    BY <1>1, <2>1, <2>2, <2>3 DEF CascadeInv, GoesOn, new
<1>6. ASSUME NEW l \in Location \ {s} PROVE CallInv(q, l)'
  <2>1. new[l] = old[l] /\ CallInv(q, l)
    BY <1>1, <1>2, <1>3
  <2> QED
    BY <1>1, <2>1, CallKept DEF GoesOn
<1>7. CallInv(q, s)'
  <2>1. Known(s) /\ Known(s)' /\ request'[q].target = request[q].target
    BY <1>1, <1>2, <1>3, LocationChange DEF CallInv, GoesOn
  <2>2. CASE Rejected(q, s)
    BY <1>1, <2>1, <2>2 DEF CallInv
  <2>3. CASE ~Rejected(q, s)
    <3>1. ~old[s].failed
      BY <2>3 DEF Rejected
    <3>2. \A d \in DevicesAt(s) \ touched[q] : HasMode(q, d)
      BY <1>1, <1>2, <1>3, <1>4, <3>1 DEF CallInv
    <3>3. \A d \in DevicesAt(s)' \ touched'[q] : HasMode(q, d)'
      BY <1>4, <2>1, <3>2 DEF DevicesAt, Recorded, HasMode
    <3>4. location' = [location EXCEPT ![s].mode = request[q].target]
      BY <1>3, <2>3, LocationDevicesAssumption DEF SaveMode
    <3>5. location[s] \in [state : {"known"}, mode : Mode, merged : BOOLEAN]
      BY <1>3, <2>1 DEF TypeOK, LocationType, Known
    <3>6. location'[s].mode = request[q].target
      BY <1>3, <3>4, <3>5 DEF TypeOK
    <3>7. new[s].pc = "done"
      BY <1>1, <2>3
    <3> QED
      BY <2>1, <3>3, <3>6, <3>7 DEF CallInv
  <2> QED
    BY <2>2, <2>3
<1> QED
  BY <1>5, <1>6, <1>7

LEMMA ModeInvStep ==
    ASSUME TypeOK, actual \in [Device -> Mode], HoldInv, ModeInv, [Next]_vars
    PROVE  ModeInv'
<1>1. Good
  BY DEF Good, HoldInv, ModeInv, Progress
<1>2. /\ touched' \in Others /\ locked' \in SUBSET Device
      /\ \A q \in Request : request[q] # Idle => SeesMore(q)
  BY TouchStep DEF ModeInv
<1>3. ClonesAreNew'
  BY ClonesStep DEF ModeInv
<1>4. ASSUME NEW q \in Request, request'[q].kind = "mode"
      PROVE  Progress(q)' /\ locked' \subseteq touched'[q]
  <2>1. CASE \E l \in Location, m \in Mode, c \in BOOLEAN : SetSystemMode(q, l, m, c)
    BY <1>1, <2>1, BeginProgress
  <2>2. CASE \E d \in Device, m \in Mode : SetDeviceSystemMode(q, d, m)
    <3>1. request'[q].top = Direct /\ locked' = locked /\ touched'[q] = locked
      BY <2>2 DEF SetDeviceSystemMode, Begin, TypeOK, ModeInv, Others
    <3> QED
      BY <3>1 DEF Progress
  <2>3. CASE /\ request[q].kind = "mode"
             /\ \/ request'[q] = request[q]
                \/ \E l \in Location : ReadDevices(q, l)
                \/ \E s \in Slot : SaveMode(q, s) \/ \E d \in Device : ForDevice(q, s, d)
    <3>1. /\ touched[q] \subseteq touched'[q] /\ locked' \subseteq touched'[q]
      BY <1>2, <2>3 DEF SeesMore, ModeInv, Idle
    <3>2. ASSUME NEW l \in Location, ReadDevices(q, l) PROVE Progress(q)'
      BY <1>1, <3>1, <3>2, ReadProgress
    <3>3. ASSUME NEW s \in Slot, SaveMode(q, s) PROVE Progress(q)'
      <4>1. request'[q].top = request[q].top
        BY <3>3, SaveCall DEF GoesOn
      <4> QED
        BY <1>1, <3>1, <3>3, <4>1, SaveProgress DEF Progress
    <3>4. ASSUME NEW s \in Slot, NEW d \in Device, ForDevice(q, s, d) PROVE Progress(q)'
      <4>1. request'[q].top = request[q].top
        BY <3>4, DeviceCall DEF GoesOn
      <4> QED
        BY <1>1, <3>1, <3>4, <4>1, DeviceProgress DEF Progress
    <3>5. ASSUME request'[q] = request[q] PROVE Progress(q)'
      <4> SUFFICES ASSUME request[q].top # Direct
                   PROVE  CascadeInv(q)' /\ \A l \in Location : CallInv(q, l)'
        BY <3>5 DEF Progress
      <4>1. CascadeInv(q) /\ \A l \in Location : CallInv(q, l)
        BY <2>3 DEF ModeInv
      <4>2. CascadeInv(q)'
        BY <3>5, <4>1 DEF CascadeInv
      <4>3. ASSUME NEW l \in Location PROVE CallInv(q, l)'
        BY <1>1, <2>3, <3>1, <3>5, <4>1, CallKept DEF Good
      <4> QED
        BY <4>2, <4>3
    <3> QED
      BY <2>3, <3>1, <3>2, <3>3, <3>4, <3>5
  <2>4. \/ request'[q] = request[q]
        \/ \E l \in Location, m \in Mode, c \in BOOLEAN : SetSystemMode(q, l, m, c)
        \/ \E d \in Device, m \in Mode : SetDeviceSystemMode(q, d, m)
        \/ \E l \in Location : ReadDevices(q, l)
        \/ \E s \in Slot : SaveMode(q, s) \/ \E d \in Device : ForDevice(q, s, d)
    BY <1>4, ModeActions
  <2>5. (\/ \E l \in Location : ReadDevices(q, l)
         \/ \E s \in Slot : SaveMode(q, s) \/ \E d \in Device : ForDevice(q, s, d))
        => request[q].kind = "mode"
    BY ModeStep, Zenon
  <2> QED
    BY <1>4, <2>1, <2>2, <2>3, <2>4, <2>5
<1>5. ASSUME NEW q \in Request, request'[q].kind = "mode", request'[q].top # Direct
      PROVE  CascadeInv(q)' /\ \A l \in Location : CallInv(q, l)'
  BY <1>4, <1>5 DEF Progress
<1> QED
  BY <1>2, <1>3, <1>4, <1>5 DEF ModeInv

Modes == actual \in [Device -> Mode] /\ HoldInv /\ ModeInv

LEMMA InitModes == Init => Modes
<1> SUFFICES ASSUME Init PROVE Modes
  OBVIOUS
<1>1. \A r \in Request : request[r] = Idle /\ request[r].kind = "idle"
  BY DEF Init, Idle
<1>2. \A r \in Request : \A d : ~Held(r, d) /\ HolderTrue(r, d)
  BY <1>1 DEF Held, HolderTrue, InCommand, InRecord, InStep, IsMoving
<1>3. ASSUME NEW d \in Device PROVE Consistent(d)
  <2>1. device[d] = [at |-> Home[d], mode |-> Initial] /\ actual[d] = Initial
    BY DEF Init
  <2> QED
    BY <2>1 DEF Consistent, Recorded, Gone
<1>4. HoldInv
  BY <1>1, <1>2, <1>3 DEF HoldInv, DeviceInv
<1>5. \A l \in Location : Known(l) <=> l \notin Fresh
  BY DEF Init, Known, Unknown
<1>6. \A r \in Request : CloneId[r] \in Fresh /\ CloneId[r] \in Location
  BY LocationDevicesAssumption DEF Fresh
<1>7. ModeInv
  BY <1>1, <1>5, <1>6 DEF Init, ModeInv, ClonesAreNew, Others
<1>8. actual \in [Device -> Mode]
  BY LocationDevicesAssumption DEF Init
<1> QED
  BY <1>4, <1>7, <1>8 DEF Modes

-----------------------------------------------------------------------------
(* The theorems.                                                           *)
LEMMA InitIInv == Init => IInv
<1> SUFFICES ASSUME Init PROVE IInv
  OBVIOUS
<1>1. location \in [Location -> LocationType]
  BY LocationDevicesAssumption DEF Init, LocationType, Unknown
<1>2. device \in [Device -> DeviceType]
  BY LocationDevicesAssumption DEF Init, DeviceType
<1>3. request \in [Request -> RequestType]
  BY DEF Init, RequestType
<1>4. SourceIsRead
  BY DEF Init, SourceIsRead, IsMoving, Idle
<1>5. CloneIsFilled
  BY LocationDevicesAssumption DEF Init, CloneIsFilled, DevicesAt
<1>6. MergedIsEmptied
  BY DEF Init, MergedIsEmptied, Known, Unknown
<1> QED
  BY <1>1, <1>2, <1>3, <1>4, <1>5, <1>6 DEF IInv, TypeOK

LEMMA NextIInv == IInv /\ [Next]_vars => IInv'
<1> SUFFICES ASSUME IInv, [Next]_vars PROVE IInv'
  OBVIOUS
<1> USE DEF IInv
<1>1. TypeOK'
  BY LocationStep, DeviceStep, RequestStep DEF TypeOK
<1>2. SourceIsRead'
  <2> SUFFICES ASSUME NEW q \in Request, IsMoving(q)', NEW d \in DevicesAt(request[q].src)',
                      request'[q].src \notin received'
               PROVE  d \in DOMAIN request'[q].step /\ request'[q].step[d].pc \in {"read", "remove"}
    BY DEF SourceIsRead
  <2>1. request'[q] \in MoveRequest /\ request'[q].src \in Location /\ d \in Device
    BY <1>1 DEF TypeOK, RequestType, Idle, IsMoving, MoveRequest, DevicesAt
  <2>2. d \in DevicesAt(request'[q].src) /\ request'[q].src \notin received /\ Recorded(d)'
    BY <2>1, DeviceStep DEF DevicesAt
  <2>3. CASE request'[q] = request[q]
    BY <2>2, <2>3 DEF SourceIsRead, IsMoving
  <2>4. CASE Moves(q)
    <3>1. PICK e \in Device : ReadRecord(q, e) \/ RemoveRecord(q, e) \/ PutRecord(q, e) \/ PutFails(q, e)
      BY <2>4 DEF Moves
    <3>2. /\ IsMoving(q) /\ request'[q].src = request[q].src
          /\ DOMAIN request'[q].step = DOMAIN request[q].step
          /\ \A c \in DOMAIN request[q].step \ {e} : request'[q].step[c] = request[q].step[c]
          /\ \/ request'[q].step[e].pc \in {"read", "remove"} \/ ~Recorded(e)'
             \/ PutRecord(q, e) \/ PutFails(q, e)
      BY <3>1, TransferStep
    <3>3. d \in DOMAIN request[q].step /\ request[q].step[d].pc \in {"read", "remove"}
      BY <2>2, <3>2 DEF SourceIsRead
    <3>4. ~PutRecord(q, d) /\ ~PutFails(q, d)
      BY <3>3 DEF PutRecord, PutFails, AtStep
    <3> QED
      BY <2>2, <3>2, <3>3, <3>4
  <2>5. CASE HasRead(q)
    BY <2>2, <2>5 DEF HasRead
  <2> QED
    BY <2>3, <2>4, <2>5, RequestStep
<1>3. CloneIsFilled'
  <2> SUFFICES ASSUME NEW l \in Fresh, l \notin received'
               PROVE  DevicesAt(l)' = {}
    BY DEF CloneIsFilled
  <2>1. l \in Location
    BY LocationDevicesAssumption DEF Fresh
  <2> QED
    BY <2>1, DeviceStep DEF CloneIsFilled
<1>4. MergedIsEmptied'
  <2> SUFFICES ASSUME NEW l \in Location, Known(l)', location'[l].merged, l \notin received'
               PROVE  DevicesAt(l)' = {}
    BY DEF MergedIsEmptied
  <2>1. DevicesAt(l)' \subseteq DevicesAt(l) /\ l \notin received
    BY DeviceStep
  <2>2. CASE Known(l) /\ location[l].merged
    BY <2>1, <2>2 DEF MergedIsEmptied
  <2>3. CASE \E r \in Request : MarkMerged(r) /\ ~request[r].failed /\ request[r].src = l
    <3>1. PICK r \in Request : MarkMerged(r) /\ request[r].src = l
      BY <2>3
    <3>2. IsMoving(r) /\ \A d \in DOMAIN request[r].step : request[r].step[d].pc = "end"
      BY <3>1 DEF MarkMerged, Moved, IsMoving
    <3>3. DevicesAt(l) = {}
      BY <2>1, <3>1, <3>2 DEF SourceIsRead
    <3> QED
      BY <2>1, <3>3
  <2>4. CASE l \in Fresh
    BY <2>1, <2>4 DEF CloneIsFilled
  <2> QED
    BY <2>2, <2>3, <2>4, LocationStep
<1> QED
  BY <1>1, <1>2, <1>3, <1>4

(* The inductive invariant holds in every reachable state.                 *)
THEOREM TransferInvariant == Spec => []IInv
<1>1. Spec => Init /\ [][Next]_vars
  BY DEF Spec
<1> QED
  BY <1>1, InitIInv, NextIInv, PTL

(* Locations, devices and requests have their types.                       *)
THEOREM TypeCorrect == Spec => []TypeOK
<1>1. IInv => TypeOK
  BY DEF IInv
<1> QED
  BY <1>1, TransferInvariant, PTL

(* A location that was marked as merged into another has no device left,   *)
(* unless devices were moved to it in turn: for any number of transfers    *)
(* of accounts side by side, system-mode requests among them, and failures *)
(* at any step.                                                            *)
THEOREM MergedTheorem == Spec => []MergedIsEmptied
<1>1. IInv => MergedIsEmptied
  BY DEF IInv
<1> QED
  BY <1>1, TransferInvariant, PTL
(* What holds of the modes holds in every reachable state.                 *)
LEMMA ModesInvariant == Spec => []Modes
<1>1. IInv /\ Modes /\ [Next]_vars => Modes'
  BY ActualStep, HoldStep, ModeInvStep DEF IInv, Modes
<1>2. Spec => Init /\ [][Next]_vars
  BY DEF Spec
<1> QED
  BY <1>1, <1>2, InitModes, TransferInvariant, PTL

(* The record of a device that nobody is working on shows the mode it was  *)
(* last sent, unless two requests worked on it at a time or its record     *)
(* could not be written: whatever mode requests and transfers interleave.  *)
THEOREM RecordTheorem == Spec => []RecordFollowsCommand
<1>1. IInv /\ Modes => RecordFollowsCommand
  <2> SUFFICES ASSUME IInv, Modes, NEW d \in Device \ crossed, \A r \in Request : d \notin Holds(r)
               PROVE  Recorded(d) /\ device[d].mode = actual[d]
    BY DEF RecordFollowsCommand
  <2>1. \A r \in Request : ~Held(r, d)
    BY HeldBy DEF IInv
  <2> QED
    BY <2>1 DEF Modes, HoldInv, DeviceInv, Consistent
<1> QED
  BY <1>1, TransferInvariant, ModesInvariant, PTL

(* When setSystemMode has been answered with success, the location, all    *)
(* locations below it on a cascade, and all their devices have the mode,   *)
(* but for what others wrote or locked since it began.                     *)
THEOREM UniformTheorem == Spec => []DoneIsUniform
<1>1. IInv /\ Modes => DoneIsUniform
  <2> SUFFICES ASSUME IInv, Modes, NEW r \in Request, Succeeded(r), NEW l \in Scope(r)
               PROVE  /\ l \in touched[r] \/ location[l].mode = request[r].target
                      /\ \A d \in DevicesAt(l) \ touched[r] :
                            device[d].mode = request[r].target /\ actual[d] = request[r].target
    BY DEF DoneIsUniform
  <2> DEFINE top == request[r].top
  <2>1. /\ request[r].kind = "mode" /\ top # Direct /\ request[r].call[top].pc = "done"
    BY DEF Succeeded
  <2>2. top \in Location
    BY <2>1, Fields DEF IInv, ModeRequest, Slot
  <2>3. CascadeInv(r) /\ \A k \in Location : CallInv(r, k)
    BY <2>1 DEF Modes, ModeInv
  <2>4. l \in Location
    BY <2>2, LocationDevicesAssumption DEF Scope
  <2>5. request[r].call[l].pc = "done"
    <3>1. CASE l = top
      BY <2>1, <3>1
    <3>2. CASE l # top
      <4>1. request[r].cascade /\ l \in Below[top] \ {top}
        BY <3>2 DEF Scope
      <4>2. request[r].call[l].pc # "none" /\ request[r].call[l].pc \in {"none", "done"}
        BY <2>1, <2>3, <2>4, <4>1 DEF CascadeInv
      <4> QED
        BY <4>2
    <3> QED
      BY <3>1, <3>2
  <2> QED
    BY <2>3, <2>4, <2>5 DEF CallInv, HasMode
<1> QED
  BY <1>1, TransferInvariant, ModesInvariant, PTL
=============================================================================
