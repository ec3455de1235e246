------------------------ MODULE DevicePairingProofs ------------------------
(***************************************************************************)
(* For any number of MAC addresses, devices, requests that interleave in   *)
(* any way, and failures: a MAC address has one record, exactly the        *)
(* devices that were removed are gone, what is recorded is known to the    *)
(* device service, and what is linked is recorded, but for the             *)
(* disturbances that the four properties of DevicePairing name.            *)
(***************************************************************************)
EXTENDS DevicePairing, TLAPS

Record == [mac : Mac, paired : BOOLEAN]

Pairing ==
    [kind : {"pair"}, pc : {"read", "create", "upsert", "getLte", "link", "release"},
     mac : Mac, sim : Sim \cup {NoSim}, id : Id \cup {"new"}]

Connecting ==
    [kind : {"connect"}, pc : {"unlink", "getLte", "link"}, mac : Mac, id : Id, sim : Sim \cup {NoSim}]

Removing == [kind : {"remove"}, pc : {"unlink", "forget", "delete"}, mac : Mac, id : Id]

Transferring == [kind : {"transfer"}, pc : {"take", "put"}, mac : Mac, id : Id, record : Record]

RequestType == {Idle} \cup Pairing \cup Connecting \cup Removing \cup Transferring

Runs(r) == request[r].pc # "idle"

(* The steps in which an operation has begun and the record is not there.  *)
Creates(r) == request[r].pc = "create"
Puts(r) == request[r].pc = "put"

-----------------------------------------------------------------------------
(* The inductive invariant.                                                *)

TypesOK ==
    /\ device \in [Id -> {NoDevice} \cup Record]
    /\ lock \in [Mac -> {"free", "held"}]
    /\ request \in [Request -> RequestType]
    /\ created \subseteq Id \X Mac
    /\ removed \subseteq Id
    /\ spoilt \in [Mac -> SUBSET {"transfer", "removal", "lapse", "failure"}]

(* An id belongs to one MAC address for good, that of its record and of    *)
(* the record which a transfer carries.                                    *)
MacIsFixed ==
    /\ \A id \in Id : Exists(id) => <<id, device[id].mac>> \in created
    /\ \A c, d \in created : c[1] = d[1] => c = d
    /\ \A r \in Request : Runs(r) /\ request[r].kind = "transfer" =>
          <<request[r].id, request[r].mac>> \in created /\ request[r].record.mac = request[r].mac
    /\ \A id \in removed : \E mac \in Mac : <<id, mac>> \in created

(* The pairing that runs holds the lock, and is the only one.              *)
PairsAlone ==
    \A r \in Request : Runs(r) /\ request[r].kind = "pair" /\ "lapse" \notin spoilt[request[r].mac] =>
        /\ lock[request[r].mac] = "held"
        /\ \A q \in Request :
              Runs(q) /\ request[q].kind = "pair" /\ request[q].mac = request[r].mac => q = r

TransfersAlone ==
    \A r \in Request : Runs(r) /\ request[r].kind = "transfer" /\ "transfer" \notin spoilt[request[r].mac] =>
        \A q \in Request : Runs(q) /\ request[q].mac = request[r].mac => q = r

Undisturbed(mac) == spoilt[mac] \cap {"lapse", "transfer"} = {}

(* Whoever is about to write a record knows that there is none.            *)
NoneYet ==
    \A r \in Request : (Creates(r) \/ Puts(r)) /\ Undisturbed(request[r].mac) => At(request[r].mac) = {}

NothingReturns == \A id \in Id : Exists(id) => id \notin removed

(* A record that was taken is in the hands of one transfer.                *)
InHand ==
    \A r \in Request : Puts(r) =>
        /\ ~Exists(request[r].id) /\ request[r].id \notin removed
        /\ \A q \in Request : Puts(q) /\ request[q].id = request[r].id => q = r

Kept ==
    \A c \in created :
        \/ Exists(c[1]) \/ c[1] \in removed \/ "failure" \in spoilt[c[2]]
        \/ \E r \in Request : Puts(r) /\ request[r].id = c[1]

IInv ==
    /\ TypesOK /\ MacIsFixed
    /\ PairsAlone /\ TransfersAlone /\ NoneYet /\ OneRecordPerMac
    /\ NothingReturns /\ InHand /\ Kept

-----------------------------------------------------------------------------
(* Requests, by their kind and by their step.                              *)

LEMMA NoRecord == ASSUME NEW x \in Record PROVE x # NoDevice
  BY DEF Record, NoDevice

LEMMA Steps ==
    ASSUME NEW q \in RequestType
    PROVE  /\ q.pc \in {"read", "create", "upsert", "release"} => q \in Pairing
           /\ q.pc \in {"getLte", "link"} => q \in Pairing \cup Connecting
           /\ q.pc = "unlink" => q \in Connecting \cup Removing
           /\ q.pc \in {"forget", "delete"} => q \in Removing
           /\ q.pc \in {"take", "put"} => q \in Transferring
  BY DEF RequestType, Idle, Pairing, Connecting, Removing, Transferring

LEMMA Kinds ==
    ASSUME NEW q \in RequestType, q.pc # "idle"
    PROVE  /\ q \in Pairing \cup Connecting \cup Removing \cup Transferring
           /\ q.mac \in Mac
           /\ q.kind = "pair" => q \in Pairing
           /\ q.kind = "connect" => q \in Connecting
           /\ q.kind = "remove" => q \in Removing
           /\ q.kind = "transfer" => q \in Transferring
<1>1. q # Idle
  BY DEF Idle
<1>2. q \in Pairing \cup Connecting \cup Removing \cup Transferring
  BY <1>1 DEF RequestType
<1> QED
  BY <1>2 DEF Pairing, Connecting, Removing, Transferring

LEMMA Runners ==
    ASSUME TypesOK, NEW r \in Request
    PROVE  /\ request[r] \in RequestType
           /\ Runs(r) => request[r].mac \in Mac
           /\ Puts(r) => Runs(r) /\ request[r] \in Transferring
           /\ Creates(r) => Runs(r) /\ request[r] \in Pairing
<1>1. request[r] \in RequestType
  BY DEF TypesOK
<1> QED
  BY <1>1, Steps, Kinds DEF Puts, Creates, Runs

(* The one MAC address that belongs to the record of a transfer.           *)
LEMMA CarriedMac ==
    ASSUME TypesOK, MacIsFixed, NEW r \in Request, Runs(r), request[r].kind = "transfer",
           NEW c \in created, request[r].id = c[1]
    PROVE  request[r].mac = c[2]
<1> DEFINE d == <<request[r].id, request[r].mac>>
<1>1. d \in created
  BY DEF MacIsFixed
<1>2. d[1] = c[1]
  OBVIOUS
<1> HIDE DEF d
<1>3. d = c
  BY <1>1, <1>2 DEF MacIsFixed
<1> QED
  BY <1>3 DEF d

-----------------------------------------------------------------------------
(* Steps that write no record: nobody starts, nobody is about to write who *)
(* was not before, or there is no record, and a pairing that runs keeps    *)
(* its lock.                                                               *)
Calm ==
    /\ UNCHANGED <<device, created, removed>>
    /\ \A m \in Mac : spoilt[m] \subseteq spoilt'[m]
    /\ \A q \in Request : Runs(q)' =>
          /\ Runs(q) /\ request'[q].kind = request[q].kind /\ request'[q].mac = request[q].mac
          /\ request[q].kind = "transfer" => request'[q] = request[q]
          /\ Creates(q)' => Creates(q) \/ At(request[q].mac) = {}
    /\ \A q \in Request : Puts(q) =>
          request'[q] = request[q] \/ "failure" \in spoilt'[request[q].mac]
    /\ \A q \in Request :
          Runs(q)' /\ request[q].kind = "pair" /\ "lapse" \notin spoilt'[request[q].mac] =>
             lock'[request[q].mac] = lock[request[q].mac]

LEMMA CalmStep == IInv /\ Calm /\ TypesOK' => IInv'
<1> SUFFICES ASSUME IInv, Calm, TypesOK' PROVE IInv'
  OBVIOUS
<1> USE DEF IInv
<1>0. /\ \A q \in Request : Runs(q)' => Runs(q) /\ request[q].mac \in Mac
      /\ \A q \in Request : Puts(q)' => Puts(q) /\ request'[q] = request[q]
      /\ \A q \in Request : Creates(q)' =>
            /\ Creates(q) \/ At(request[q].mac) = {}
            /\ Runs(q)' /\ request'[q].mac = request[q].mac
  <2> SUFFICES ASSUME NEW q \in Request
               PROVE  /\ Runs(q)' => Runs(q) /\ request[q].mac \in Mac
                      /\ Puts(q)' => Puts(q) /\ request'[q] = request[q]
                      /\ Creates(q)' =>
                            /\ Creates(q) \/ At(request[q].mac) = {}
                            /\ Runs(q)' /\ request'[q].mac = request[q].mac
    OBVIOUS
  <2>1. request'[q] \in RequestType /\ request[q] \in RequestType
    BY DEF TypesOK
  <2>2. Runs(q)' => Runs(q) /\ request[q].mac \in Mac
    BY Runners DEF Calm
  <2>3. ASSUME Puts(q)' PROVE Puts(q) /\ request'[q] = request[q]
    <3>1. request'[q].kind = "transfer" /\ Runs(q)'
      BY <2>1, <2>3, Steps DEF Puts, Runs, Transferring
    <3>2. request'[q] = request[q]
      BY <3>1 DEF Calm
    <3> QED
      BY <2>3, <3>2 DEF Puts
  <2>4. Creates(q)' => /\ Creates(q) \/ At(request[q].mac) = {}
                       /\ Runs(q)' /\ request'[q].mac = request[q].mac
    BY DEF Calm, Creates, Runs
  <2> QED
    BY <2>2, <2>3, <2>4
<1>1. MacIsFixed'
  BY <1>0 DEF MacIsFixed, Calm, Exists
<1>2. PairsAlone'
  <2> SUFFICES ASSUME NEW r \in Request, Runs(r)', request'[r].kind = "pair",
                      "lapse" \notin spoilt'[request'[r].mac]
               PROVE  /\ lock'[request'[r].mac] = "held"
                      /\ \A q \in Request :
                            Runs(q)' /\ request'[q].kind = "pair" /\ request'[q].mac = request'[r].mac => q = r
    BY DEF PairsAlone
  <2>1. /\ Runs(r) /\ request[r].kind = "pair" /\ request'[r].mac = request[r].mac
        /\ request[r].mac \in Mac /\ "lapse" \notin spoilt[request[r].mac]
    BY <1>0 DEF Calm
  <2>2. lock'[request[r].mac] = lock[request[r].mac]
    BY <2>1 DEF Calm
  <2> QED
    BY <2>1, <2>2 DEF PairsAlone, Calm
<1>3. TransfersAlone'
  BY <1>0 DEF TransfersAlone, Calm
<1>4. NoneYet' /\ OneRecordPerMac'
  BY <1>0 DEF NoneYet, OneRecordPerMac, Undisturbed, Calm, At, Exists, Creates, Puts, Runs
<1>5. NothingReturns' /\ InHand'
  BY <1>0 DEF NothingReturns, InHand, Calm, Exists
<1>6. Kept'
  <2> SUFFICES ASSUME NEW c \in created
               PROVE  \/ Exists(c[1]) \/ c[1] \in removed \/ "failure" \in spoilt'[c[2]]
                      \/ \E r \in Request : Puts(r)' /\ request'[r].id = c[1]
    BY DEF Kept, Calm, Exists
  <2>1. c[2] \in Mac /\ spoilt[c[2]] \subseteq spoilt'[c[2]]
    BY DEF TypesOK, Calm
  <2>2. CASE \E r \in Request : Puts(r) /\ request[r].id = c[1]
    <3>1. PICK r \in Request : Puts(r) /\ request[r].id = c[1]
      BY <2>2
    <3>2. Runs(r) /\ request[r].kind = "transfer"
      BY <3>1, Runners DEF Transferring
    <3>3. request[r].mac = c[2]
      BY <3>1, <3>2, CarriedMac
    <3> QED
      BY <3>1, <3>3 DEF Calm, Puts
  <2> QED
    BY <2>1, <2>2 DEF Kept
<1> QED
  BY <1>1, <1>2, <1>3, <1>4, <1>5, <1>6

(* What disturbs a MAC address is only ever added.                         *)
Grows ==
    /\ spoilt' \in [Mac -> SUBSET {"transfer", "removal", "lapse", "failure"}]
    /\ \A m \in Mac : spoilt[m] \subseteq spoilt'[m]

LEMMA SpoilGrows ==
    ASSUME TypesOK, NEW m \in Mac, NEW how \in SUBSET {"transfer", "removal", "lapse", "failure"},
           Spoil(m, how)
    PROVE  Grows /\ how \subseteq spoilt'[m]
  BY DEF TypesOK, Spoil, Grows

LEMMA SameSpoilt == TypesOK /\ UNCHANGED spoilt => Grows
  BY DEF TypesOK, Grows

LEMMA DisturbsType ==
    ASSUME NEW kind, NEW mac, NEW id
    PROVE  Disturbs(kind, mac, id) \subseteq {"transfer", "removal"}
  BY DEF Disturbs

Becomes(r, state) == request' = [request EXCEPT ![r] = state]

LEMMA Become ==
    ASSUME TypesOK, NEW r \in Request, NEW state \in RequestType, Becomes(r, state)
    PROVE  /\ request' \in [Request -> RequestType]
           /\ request'[r] = state
           /\ \A q \in Request \ {r} : request'[q] = request[q]
  BY DEF TypesOK, Becomes

(* Requests other than a transfer go on, or end.                           *)
LEMMA GoOn ==
    ASSUME IInv, NEW r \in Request, Runs(r), request[r].kind # "transfer",
           NEW state \in RequestType, Becomes(r, state),
           \/ state = Idle
           \/ /\ state.kind = request[r].kind /\ state.mac = request[r].mac
              /\ state.pc = "create" => At(request[r].mac) = {},
           UNCHANGED <<device, created, removed>>, Grows,
           \/ UNCHANGED lock
           \/ /\ lock' = [lock EXCEPT ![request[r].mac] = "free"]
              /\ request[r].kind = "pair" /\ state = Idle
    PROVE  IInv'
<1> USE DEF IInv
<1>1. /\ request' \in [Request -> RequestType]
      /\ request'[r] = state
      /\ \A q \in Request \ {r} : request'[q] = request[q]
  BY Become
<1>2. TypesOK'
  BY <1>1 DEF TypesOK, Grows
<1>3. ~Puts(r)
  BY Runners DEF Transferring
<1>4. state.pc = "idle" => state = Idle
  BY DEF RequestType, Idle, Pairing, Connecting, Removing, Transferring
<1>5. ASSUME NEW q \in Request, Runs(q)'
      PROVE  /\ Runs(q) /\ request'[q].kind = request[q].kind /\ request'[q].mac = request[q].mac
             /\ request[q].kind = "transfer" => request'[q] = request[q]
             /\ Creates(q)' => Creates(q) \/ At(request[q].mac) = {}
  <2>1. CASE q = r
    <3>1. state # Idle /\ request'[q] = state
      BY <1>1, <1>5, <2>1 DEF Runs, Idle
    <3> QED
      BY <2>1, <3>1 DEF Creates
  <2>2. CASE q # r
    BY <1>1, <1>5, <2>2 DEF Runs, Creates
  <2> QED
    BY <2>1, <2>2
<1>6. ASSUME NEW q \in Request, Runs(q)', request[q].kind = "pair",
             "lapse" \notin spoilt'[request[q].mac]
      PROVE  lock'[request[q].mac] = lock[request[q].mac]
  <2>1. CASE lock' = [lock EXCEPT ![request[r].mac] = "free"] /\ request[r].kind = "pair" /\ state = Idle
    <3>1. q # r
      BY <1>1, <1>6, <2>1 DEF Runs, Idle
    <3>2. Runs(q) /\ request[q].mac \in Mac
      BY <1>5, <1>6, Runners
    <3>3. "lapse" \notin spoilt[request[q].mac]
      BY <1>6, <3>2 DEF Grows
    <3>4. request[r].mac # request[q].mac
      BY <1>6, <2>1, <3>1, <3>2, <3>3 DEF PairsAlone
    <3> QED
      BY <2>1, <3>2, <3>4 DEF TypesOK
  <2> QED
    BY <2>1
<1>7. \A q \in Request : Puts(q) => request'[q] = request[q]
  BY <1>1, <1>3
<1>8. Calm
  BY <1>5, <1>6, <1>7 DEF Calm, Grows
<1> QED
  BY <1>2, <1>8, CalmStep

LEMMA GotoBecomes ==
    ASSUME TypesOK, NEW r \in Request, NEW pc, Goto(r, pc)
    PROVE  /\ pc = "idle" => Becomes(r, Idle)
           /\ pc # "idle" => Becomes(r, [request[r] EXCEPT !.pc = pc])
  BY DEF Goto, Becomes

LEMMA IdleType == Idle \in RequestType
  BY DEF RequestType

(* The same for a step that only names the next one.                       *)
LEMMA GotoStep ==
    ASSUME IInv, NEW r \in Request, Runs(r), request[r].kind # "transfer",
           NEW pc, Goto(r, pc), pc = "create" => At(request[r].mac) = {},
           pc = "idle" \/ [request[r] EXCEPT !.pc = pc] \in RequestType,
           UNCHANGED <<device, lock, created, removed>>, Grows
    PROVE  IInv'
<1>1. CASE pc = "idle"
  BY <1>1, GotoBecomes, IdleType, GoOn DEF IInv
<1>2. CASE pc # "idle"
  <2> DEFINE state == [request[r] EXCEPT !.pc = pc]
  <2>1. request[r] \in Pairing \cup Connecting \cup Removing \cup Transferring
    BY Runners, Kinds DEF IInv, Runs
  <2>2. state.kind = request[r].kind /\ state.mac = request[r].mac /\ state.pc = pc
    BY <2>1 DEF Pairing, Connecting, Removing, Transferring
  <2>3. Becomes(r, state) /\ state \in RequestType
    BY <1>2, GotoBecomes DEF IInv
  <2> HIDE DEF state
  <2> QED
    BY <2>2, <2>3, GoOn
<1> QED
  BY <1>1, <1>2

-----------------------------------------------------------------------------
(* A request starts.                                                       *)

LEMMA StartStep ==
    ASSUME IInv, NEW r \in Request,
           NEW state \in Pairing \cup Connecting \cup Removing \cup Transferring,
           Start(r, state), state.pc \notin {"create", "put"},
           UNCHANGED <<device, created, removed>>,
           \/ /\ state.kind = "pair" /\ lock[state.mac] = "free"
              /\ lock' = [lock EXCEPT ![state.mac] = "held"]
           \/ state.kind # "pair" /\ UNCHANGED lock,
           state.kind = "transfer" => /\ <<state.id, state.mac>> \in created
                                      /\ state.record.mac = state.mac
    PROVE  IInv'
<1> USE DEF IInv
<1> DEFINE how == Disturbs(state.kind, state.mac, state.id)
<1>1. state \in RequestType /\ state.mac \in Mac /\ state.pc # "idle"
  BY DEF RequestType, Pairing, Connecting, Removing, Transferring
<1>2. ~Runs(r) /\ Becomes(r, state) /\ Spoil(state.mac, how)
  BY DEF Start, Runs, Becomes
<1>3. /\ request' \in [Request -> RequestType]
      /\ request'[r] = state
      /\ \A q \in Request \ {r} : request'[q] = request[q]
  BY <1>1, <1>2, Become
<1>4. Grows /\ how \subseteq spoilt'[state.mac]
  BY <1>1, <1>2, DisturbsType, SpoilGrows
<1>5. ASSUME NEW q \in Request, Runs(q), request[q].mac = state.mac,
             "transfer" \in {state.kind, request[q].kind}
      PROVE  "transfer" \in spoilt'[state.mac]
  BY <1>4, <1>5 DEF Disturbs, Active, Runs
<1> HIDE DEF how
<1>6. TypesOK'
  BY <1>1, <1>3, <1>4 DEF TypesOK, Grows
<1>7. MacIsFixed'
  BY <1>3 DEF MacIsFixed, Exists, Runs
<1>8. PairsAlone'
  <2> SUFFICES ASSUME NEW p \in Request, Runs(p)', request'[p].kind = "pair",
                      "lapse" \notin spoilt'[request'[p].mac]
               PROVE  /\ lock'[request'[p].mac] = "held"
                      /\ \A q \in Request :
                            Runs(q)' /\ request'[q].kind = "pair" /\ request'[q].mac = request'[p].mac => q = p
    BY DEF PairsAlone
  <2>1. \A q \in Request : Runs(q) /\ request[q].kind = "pair" /\ request[q].mac \in Mac
                           /\ "lapse" \notin spoilt'[request[q].mac] =>
           /\ lock[request[q].mac] = "held"
           /\ \A x \in Request : Runs(x) /\ request[x].kind = "pair" /\ request[x].mac = request[q].mac => x = q
    BY <1>4 DEF PairsAlone, Grows
  <2>2. CASE p = r
    <3>1. \A q \in Request \ {r} : Runs(q)' /\ request'[q].kind = "pair" => request'[q].mac # state.mac
      BY <1>1, <1>3, <2>1, <2>2 DEF Runs
    <3>2. lock'[state.mac] = "held"
      BY <1>1, <1>3, <2>2 DEF TypesOK
    <3> QED
      BY <1>3, <2>2, <3>1, <3>2
  <2>3. CASE p # r
    <3>1. Runs(p) /\ request'[p] = request[p] /\ request[p].mac \in Mac
      BY <1>3, <2>3, Runners DEF Runs
    <3>2. state.kind = "pair" => state.mac # request[p].mac
      BY <2>1, <3>1
    <3>3. lock'[request[p].mac] = lock[request[p].mac]
      BY <1>1, <3>1, <3>2 DEF TypesOK
    <3> QED
      BY <1>3, <2>1, <2>3, <3>1, <3>2, <3>3 DEF Runs
  <2> QED
    BY <2>2, <2>3
<1>9. TransfersAlone'
  <2> SUFFICES ASSUME NEW p \in Request, Runs(p)', request'[p].kind = "transfer",
                      "transfer" \notin spoilt'[request'[p].mac],
                      NEW q \in Request, Runs(q)', request'[q].mac = request'[p].mac
               PROVE  q = p
    BY DEF TransfersAlone
  <2>1. CASE p = r
    BY <1>3, <1>5, <2>1 DEF Runs
  <2>2. CASE q = r /\ p # r
    BY <1>3, <1>5, <2>2 DEF Runs
  <2>3. CASE p # r /\ q # r
    <3>1. Runs(p) /\ Runs(q) /\ request'[p] = request[p] /\ request'[q] = request[q]
      BY <1>3, <2>3 DEF Runs
    <3>2. "transfer" \notin spoilt[request[p].mac]
      BY <1>4, <3>1, Runners DEF Grows
    <3> QED
      BY <3>1, <3>2 DEF TransfersAlone
  <2> QED
    BY <2>1, <2>2, <2>3
<1>10. ASSUME NEW q \in Request
       PROVE  /\ Puts(q)' <=> Puts(q)
              /\ Creates(q)' => Creates(q)
              /\ Puts(q) \/ Creates(q)' => request'[q] = request[q] /\ request[q].mac \in Mac
  <2>1. CASE q = r
    BY <1>2, <1>3, <2>1 DEF Puts, Creates, Runs
  <2>2. CASE q # r
    BY <1>3, <2>2, Runners DEF Puts, Creates
  <2> QED
    BY <2>1, <2>2
<1>11. NoneYet' /\ OneRecordPerMac'
  BY <1>4, <1>10 DEF NoneYet, OneRecordPerMac, Undisturbed, At, Exists, Grows
<1>12. NothingReturns' /\ InHand'
  BY <1>10 DEF NothingReturns, InHand, Exists
<1>13. Kept'
  <2>1. \A c \in created : c[2] \in Mac
    BY DEF TypesOK
  <2> QED
    BY <1>4, <1>10, <2>1 DEF Kept, Exists, Grows
<1> QED
  BY <1>6, <1>7, <1>8, <1>9, <1>11, <1>12, <1>13

-----------------------------------------------------------------------------
(* Steps that write a record.                                              *)

(* What they do to the requests.                                           *)
LEMMA SameRuns ==
    ASSUME IInv, NEW r \in Request, Runs(r), NEW state \in RequestType, Becomes(r, state),
           \/ state = Idle
           \/ state.kind = request[r].kind /\ state.mac = request[r].mac,
           UNCHANGED <<lock, spoilt>>
    PROVE  PairsAlone' /\ TransfersAlone'
<1> USE DEF IInv
<1>1. /\ request'[r] = state
      /\ \A q \in Request \ {r} : request'[q] = request[q]
  BY Become
<1>2. \A q \in Request : Runs(q)' =>
         Runs(q) /\ request'[q].kind = request[q].kind /\ request'[q].mac = request[q].mac
  BY <1>1 DEF Runs, Idle
<1>3. PairsAlone'
  BY <1>2 DEF PairsAlone
<1>4. TransfersAlone'
  BY <1>2 DEF TransfersAlone
<1> QED
  BY <1>3, <1>4

LEMMA CreateStep == ASSUME IInv, NEW r \in Request, CreateDevice(r) PROVE IInv'
<1> USE DEF IInv
<1> DEFINE mac == request[r].mac
<1>1. request[r] \in Pairing /\ Runs(r) /\ Creates(r) /\ mac \in Mac
  BY Runners DEF CreateDevice, Creates
<1>2. PICK id \in Id :
        /\ \A c \in created : c[1] # id
        /\ device' = [device EXCEPT ![id] = [mac |-> mac, paired |-> TRUE]]
        /\ created' = created \cup {<<id, mac>>}
        /\ request' = [request EXCEPT ![r].pc = "upsert", ![r].id = id]
  BY DEF CreateDevice
<1> DEFINE state == [request[r] EXCEPT !.pc = "upsert", !.id = id]
<1>3. Becomes(r, state)
  BY <1>2 DEF Becomes
<1>4. state \in Pairing /\ state \in RequestType
  BY <1>1 DEF Pairing, RequestType
<1>5. /\ state.pc = "upsert" /\ state.mac = mac /\ state.kind = "pair" /\ request[r].kind = "pair"
  BY <1>1 DEF Pairing
<1> HIDE DEF state
<1>6. /\ request' \in [Request -> RequestType]
      /\ request'[r] = state
      /\ \A q \in Request \ {r} : request'[q] = request[q]
  BY <1>3, <1>4, Become
<1>7. UNCHANGED <<lock, removed, spoilt>>
  BY DEF CreateDevice
<1> DEFINE record == [mac |-> mac, paired |-> TRUE]
<1>8. record \in Record /\ record # NoDevice /\ record.mac = mac
  BY <1>1, NoRecord DEF Record
<1> HIDE DEF record
<1>9. /\ device' = [device EXCEPT ![id] = record]
      /\ device'[id] = record
      /\ \A i \in Id \ {id} : device'[i] = device[i]
  BY <1>2 DEF TypesOK, record
<1>10. ~Exists(id) /\ id \notin removed
  BY <1>2 DEF MacIsFixed
<1>11. \A q \in Request : Puts(q)' => q # r /\ Puts(q) /\ request'[q] = request[q]
  BY <1>5, <1>6 DEF Puts
<1>12. \A q \in Request : Puts(q) => request'[q] = request[q]
  BY <1>1, <1>6 DEF Puts, Creates
<1>13. \A q \in Request : Puts(q) => request[q].id # id
  <2> SUFFICES ASSUME NEW q \in Request, Puts(q), request[q].id = id PROVE FALSE
    OBVIOUS
  <2>1. Runs(q) /\ request[q].kind = "transfer"
    BY Runners DEF Transferring
  <2>2. <<request[q].id, request[q].mac>> \in created
    BY <2>1 DEF MacIsFixed
  <2> QED
    BY <1>2, <2>2
<1>14. TypesOK'
  <2>1. device' \in [Id -> {NoDevice} \cup Record]
    BY <1>8, <1>9 DEF TypesOK
  <2>2. created' \subseteq Id \X Mac
    BY <1>1, <1>2 DEF TypesOK
  <2> QED
    BY <1>6, <1>7, <2>1, <2>2 DEF TypesOK
<1>15. MacIsFixed'
  <2>1. \A i \in Id : Exists(i)' => <<i, device'[i].mac>> \in created'
    BY <1>2, <1>8, <1>9 DEF MacIsFixed, Exists
  <2>2. \A c, d \in created' : c[1] = d[1] => c = d
    BY <1>2 DEF MacIsFixed
  <2>3. ASSUME NEW q \in Request, Runs(q)', request'[q].kind = "transfer"
        PROVE  <<request'[q].id, request'[q].mac>> \in created' /\ request'[q].record.mac = request'[q].mac
    <3>1. Runs(q) /\ request'[q] = request[q]
      BY <1>5, <1>6, <2>3 DEF Runs
    <3>2. <<request[q].id, request[q].mac>> \in created /\ request[q].record.mac = request[q].mac
      BY <2>3, <3>1 DEF MacIsFixed
    <3> QED
      BY <1>2, <3>1, <3>2
  <2>4. \A i \in removed' : \E m \in Mac : <<i, m>> \in created'
    BY <1>2, <1>7 DEF MacIsFixed
  <2> QED
    BY <2>1, <2>2, <2>3, <2>4 DEF MacIsFixed
<1>16. PairsAlone' /\ TransfersAlone'
  BY <1>1, <1>3, <1>4, <1>5, <1>7, SameRuns
<1>17. \A m \in Mac : At(m)' = IF m = mac THEN At(m) \cup {id} ELSE At(m)
  BY <1>8, <1>9, <1>10 DEF At, Exists
<1>18. NoneYet'
  <2> SUFFICES ASSUME NEW q \in Request, Creates(q)' \/ Puts(q)', Undisturbed(request[q].mac)'
               PROVE  At(request[q].mac)' = {}
    BY DEF NoneYet
  <2>1. q # r /\ request'[q] = request[q] /\ (Creates(q) \/ Puts(q))
    BY <1>5, <1>6 DEF Creates, Puts
  <2>2. Undisturbed(request[q].mac) /\ Runs(q) /\ request[q].mac \in Mac
    BY <1>7, <2>1, Runners DEF Undisturbed
  <2>3. At(request[q].mac) = {}
    BY <2>1, <2>2 DEF NoneYet
  <2>4. ASSUME request[q].mac = mac PROVE FALSE
    <3>1. CASE Creates(q)
      BY <1>1, <1>5, <2>1, <2>2, <2>4, <3>1, Runners DEF PairsAlone, Undisturbed, Pairing
    <3>2. CASE Puts(q)
      BY <1>1, <2>1, <2>2, <2>4, <3>2, Runners DEF TransfersAlone, Undisturbed, Transferring
    <3> QED
      BY <2>1, <3>1, <3>2
  <2> QED
    BY <1>17, <2>1, <2>2, <2>3, <2>4
<1>19. OneRecordPerMac'
  <2> SUFFICES ASSUME NEW m \in Mac, spoilt[m] \cap {"lapse", "transfer"} = {}
               PROVE  \A x, y \in At(m)' : x = y
    BY <1>7 DEF OneRecordPerMac
  <2>1. m = mac => At(m) = {}
    BY <1>1 DEF NoneYet, Undisturbed
  <2>2. \A x, y \in At(m) : x = y
    BY DEF OneRecordPerMac
  <2> QED
    BY <1>17, <2>1, <2>2
<1>20. NothingReturns'
  BY <1>7, <1>9, <1>10 DEF NothingReturns, Exists
<1>21. InHand'
  BY <1>7, <1>9, <1>11, <1>13 DEF InHand, Exists
<1>22. Kept'
  <2> SUFFICES ASSUME NEW c \in created'
               PROVE  \/ Exists(c[1])' \/ c[1] \in removed \/ "failure" \in spoilt[c[2]]
                      \/ \E q \in Request : Puts(q)' /\ request'[q].id = c[1]
    BY <1>7 DEF Kept
  <2>1. CASE c = <<id, mac>>
    BY <1>8, <1>9, <2>1 DEF Exists
  <2>2. CASE c \in created
    <3>1. c[1] \in Id
      BY <2>2 DEF TypesOK
    <3>2. Exists(c[1]) => Exists(c[1])'
      BY <1>8, <1>9, <3>1 DEF Exists
    <3>3. \A q \in Request : Puts(q) => Puts(q)'
      BY <1>12 DEF Puts
    <3> QED
      BY <1>12, <2>2, <3>2, <3>3 DEF Kept
  <2> QED
    BY <1>2, <2>1, <2>2
<1> QED
  BY <1>14, <1>15, <1>16, <1>18, <1>19, <1>20, <1>21, <1>22

(* A record is deleted: by a removal, or by a transfer that carries it on. *)
LEMMA DropStep ==
    ASSUME IInv, NEW r \in Request, Runs(r), ~Puts(r), NEW state \in RequestType, Becomes(r, state),
           NEW id \in Id, device' = [device EXCEPT ![id] = NoDevice],
           UNCHANGED <<lock, created, spoilt>>,
           \/ /\ state = Idle
              /\ removed' = IF Exists(id) THEN removed \cup {id} ELSE removed
           \/ /\ request[r] \in Transferring /\ id = request[r].id
              /\ state = [request[r] EXCEPT !.pc = "put"]
              /\ Exists(id) /\ UNCHANGED removed
    PROVE  IInv'
<1> USE DEF IInv
<1> DEFINE Carried == request[r] \in Transferring /\ id = request[r].id
                      /\ state = [request[r] EXCEPT !.pc = "put"] /\ Exists(id) /\ UNCHANGED removed
<1>1. /\ request' \in [Request -> RequestType]
      /\ request'[r] = state
      /\ \A q \in Request \ {r} : request'[q] = request[q]
  BY Become
<1>2. Carried => /\ state.kind = "transfer" /\ request[r].kind = "transfer"
                 /\ state.mac = request[r].mac /\ state.id = id
                 /\ state.record = request[r].record /\ state.pc = "put"
  BY DEF Transferring
<1>3. device'[id] = NoDevice /\ (\A i \in Id \ {id} : device'[i] = device[i])
  BY DEF TypesOK
<1>4. \A i \in Id : Exists(i)' => i # id /\ Exists(i) /\ device'[i] = device[i]
  BY <1>3 DEF Exists
<1>5. \A m \in Mac : At(m)' \subseteq At(m)
  BY <1>4 DEF At
<1>6. \A q \in Request : Runs(q)' =>
         Runs(q) /\ request'[q].kind = request[q].kind /\ request'[q].mac = request[q].mac
  BY <1>1, <1>2 DEF Runs, Idle
<1>7. \A q \in Request : Puts(q)' => (q = r /\ Carried) \/ (q # r /\ Puts(q) /\ request'[q] = request[q])
  BY <1>1, <1>2 DEF Puts, Idle
<1>8. \A q \in Request : Creates(q)' => Creates(q) /\ request'[q] = request[q]
  BY <1>1, <1>2 DEF Creates, Idle
<1>9. \A q \in Request : Puts(q) => request'[q] = request[q]
  BY <1>1
<1>10. TypesOK'
  BY <1>1, <1>3 DEF TypesOK
<1>11. MacIsFixed'
  <2>1. \A q \in Request : Runs(q)' /\ request'[q].kind = "transfer" =>
           <<request'[q].id, request'[q].mac>> \in created /\ request'[q].record.mac = request'[q].mac
    BY <1>1, <1>2, <1>6 DEF MacIsFixed, Runs, Idle
  <2>2. \A i \in removed' : \E m \in Mac : <<i, m>> \in created
    <3>1. Exists(id) => <<id, device[id].mac>> \in created
      BY DEF MacIsFixed
    <3>2. Exists(id) => \E m \in Mac : <<id, m>> \in created
      BY <3>1 DEF TypesOK
    <3> QED
      BY <3>2 DEF MacIsFixed
  <2> QED
    BY <1>4, <2>1, <2>2 DEF MacIsFixed
<1>12. PairsAlone' /\ TransfersAlone'
  BY <1>2, SameRuns
<1>13. Carried => device[id].mac = request[r].mac
  <2> SUFFICES ASSUME Carried PROVE device[id].mac = request[r].mac
    OBVIOUS
  <2> DEFINE c == <<id, device[id].mac>>
             d == <<id, request[r].mac>>
  <2>1. c \in created /\ d \in created /\ c[1] = d[1]
    BY <1>2 DEF MacIsFixed
  <2> HIDE DEF c, d
  <2>2. c = d
    BY <2>1 DEF MacIsFixed
  <2> QED
    BY <2>2 DEF c, d
<1>14. NoneYet' /\ OneRecordPerMac'
  <2>1. ASSUME NEW q \in Request, Creates(q)' \/ Puts(q)', Undisturbed(request[q].mac)'
        PROVE  At(request[q].mac)' = {}
    <3>1. CASE q = r /\ Carried
      <4>1. Undisturbed(request[r].mac) /\ request[r].mac \in Mac
        BY <1>1, <1>2, <2>1, <3>1, Runners DEF Undisturbed
      <4>2. PICK m \in Mac : m = request[r].mac
        BY <4>1
      <4>3. At(m)' = At(m) \ {id}
        BY <1>3, <1>4 DEF At, Exists
      <4>4. id \in At(m)
        BY <1>13, <3>1, <4>2 DEF At
      <4>5. \A x, y \in At(m) : x = y
        BY <4>1, <4>2 DEF OneRecordPerMac, Undisturbed
      <4>6. At(m)' = {} /\ request'[q].mac = m
        BY <1>1, <1>2, <3>1, <4>2, <4>3, <4>4, <4>5
      <4> QED
        BY <4>6
    <3>2. CASE ~(q = r /\ Carried)
      <4>1. (Creates(q) \/ Puts(q)) /\ request'[q] = request[q]
        BY <1>7, <1>8, <2>1, <3>2
      <4>2. Undisturbed(request[q].mac) /\ request[q].mac \in Mac
        BY <2>1, <4>1, Runners DEF Undisturbed
      <4>3. At(request[q].mac) = {}
        BY <4>1, <4>2 DEF NoneYet
      <4> QED
        BY <1>5, <4>1, <4>2, <4>3
    <3> QED
      BY <3>1, <3>2
  <2>2. OneRecordPerMac'
    BY <1>5 DEF OneRecordPerMac
  <2> QED
    BY <2>1, <2>2 DEF NoneYet
<1>15. NothingReturns'
  BY <1>4 DEF NothingReturns
<1>16. InHand'
  <2> SUFFICES ASSUME NEW p \in Request, Puts(p)'
               PROVE  /\ ~Exists(request[p].id)' /\ request'[p].id \notin removed'
                      /\ \A q \in Request : Puts(q)' /\ request'[q].id = request'[p].id => q = p
    BY DEF InHand
  <2>1. CASE p = r /\ Carried
    <3>1. request'[p].id = id
      BY <1>1, <1>2, <2>1
    <3>2. device'[id] = NoDevice /\ id \notin removed'
      BY <1>3, <2>1 DEF NothingReturns
    <3>3. \A q \in Request : Puts(q)' /\ request'[q].id = id => q = p
      BY <1>7, <2>1 DEF InHand
    <3> QED
      BY <3>1, <3>2, <3>3 DEF Exists
  <2>2. CASE p # r /\ Puts(p) /\ request'[p] = request[p]
    <3>1. ~Exists(request[p].id) /\ request[p].id \notin removed /\ request[p].id \in Id
      BY <2>2, Runners DEF InHand, Transferring
    <3>2. device'[request[p].id] = NoDevice
      BY <1>3, <3>1 DEF Exists
    <3>3. request[p].id \notin removed'
      BY <3>1
    <3>4. \A q \in Request : Puts(q)' /\ request'[q].id = request[p].id => q = p
      BY <1>1, <1>2, <1>7, <2>2, <3>1 DEF InHand
    <3> QED
      BY <2>2, <3>2, <3>3, <3>4 DEF Exists
  <2> QED
    BY <1>7, <2>1, <2>2
<1>17. Kept'
  <2> SUFFICES ASSUME NEW c \in created
               PROVE  \/ Exists(c[1])' \/ c[1] \in removed' \/ "failure" \in spoilt[c[2]]
                      \/ \E q \in Request : Puts(q)' /\ request'[q].id = c[1]
    BY DEF Kept
  <2>1. c[1] \in Id
    BY DEF TypesOK
  <2>2. Exists(c[1]) => Exists(c[1])' \/ c[1] = id
    BY <1>3, <2>1 DEF Exists
  <2>3. CASE c[1] = id /\ Exists(id)
    BY <1>1, <1>2, <2>3 DEF Puts
  <2>4. \A q \in Request : Puts(q) => Puts(q)' /\ request'[q] = request[q]
    BY <1>9 DEF Puts
  <2>5. removed \subseteq removed'
    OBVIOUS
  <2> QED
    BY <2>2, <2>3, <2>4, <2>5 DEF Kept
<1> QED
  BY <1>10, <1>11, <1>12, <1>14, <1>15, <1>16, <1>17

LEMMA PutStep == ASSUME IInv, NEW r \in Request, PutRecord(r) PROVE IInv'
<1> USE DEF IInv
<1> DEFINE id == request[r].id
           mac == request[r].mac
           record == request[r].record
<1>1. /\ Puts(r) /\ Runs(r) /\ request[r].kind = "transfer"
      /\ id \in Id /\ mac \in Mac /\ record \in Record
  BY Runners DEF PutRecord, Puts, Transferring
<1>2. Becomes(r, Idle)
  BY GotoBecomes DEF PutRecord
<1>3. /\ request' \in [Request -> RequestType]
      /\ request'[r] = Idle
      /\ \A q \in Request \ {r} : request'[q] = request[q]
  BY <1>2, IdleType, Become
<1>4. UNCHANGED <<lock, created, removed, spoilt>> /\ device' = [device EXCEPT ![id] = record]
  BY DEF PutRecord
<1>5. <<id, mac>> \in created /\ record.mac = mac /\ record # NoDevice
  BY <1>1, NoRecord DEF MacIsFixed
<1>6. ~Exists(id) /\ id \notin removed /\ \A q \in Request : Puts(q) /\ request[q].id = id => q = r
  BY <1>1 DEF InHand
<1> HIDE DEF id, mac, record
<1>7. device'[id] = record /\ \A i \in Id \ {id} : device'[i] = device[i]
  BY <1>1, <1>4 DEF TypesOK
<1>8. \A q \in Request : Runs(q)' => q # r /\ Runs(q) /\ request'[q] = request[q]
  BY <1>3 DEF Runs, Idle
<1>9. \A q \in Request : Puts(q)' => q # r /\ Puts(q) /\ request'[q] = request[q] /\ Runs(q)
  BY <1>3, Runners DEF Puts, Idle
<1>10. \A q \in Request : Creates(q)' => q # r /\ Creates(q) /\ request'[q] = request[q] /\ Runs(q)
  BY <1>3, Runners DEF Creates, Idle
<1>11. TypesOK'
  BY <1>1, <1>3, <1>4, <1>7 DEF TypesOK
<1>12. MacIsFixed'
  <2>1. \A i \in Id : Exists(i)' => <<i, device'[i].mac>> \in created
    BY <1>5, <1>7 DEF MacIsFixed, Exists
  <2> QED
    BY <1>4, <1>8, <2>1 DEF MacIsFixed
<1>13. PairsAlone' /\ TransfersAlone'
  BY <1>1, <1>2, <1>4, IdleType, SameRuns
<1>14. \A m \in Mac : At(m)' = IF m = mac THEN At(m) \cup {id} ELSE At(m)
  BY <1>1, <1>5, <1>6, <1>7 DEF At, Exists
<1>15. NoneYet'
  <2> SUFFICES ASSUME NEW q \in Request, Creates(q)' \/ Puts(q)', Undisturbed(request[q].mac)'
               PROVE  At(request[q].mac)' = {}
    BY DEF NoneYet
  <2>1. q # r /\ request'[q] = request[q] /\ (Creates(q) \/ Puts(q)) /\ Runs(q)
    BY <1>9, <1>10
  <2>2. PICK m \in Mac : m = request[q].mac
    BY <2>1, Runners
  <2>3. spoilt[m] \cap {"lapse", "transfer"} = {}
    BY <1>4, <2>1, <2>2 DEF Undisturbed
  <2>4. m # mac
    BY <1>1, <2>1, <2>2, <2>3 DEF TransfersAlone, mac
  <2>5. At(m) = {}
    BY <2>1, <2>2, <2>3 DEF NoneYet, Undisturbed
  <2>6. At(m)' = {}
    BY <1>14, <2>4, <2>5
  <2> QED
    BY <2>1, <2>2, <2>6
<1>16. OneRecordPerMac'
  <2> SUFFICES ASSUME NEW m \in Mac, spoilt[m] \cap {"lapse", "transfer"} = {}
               PROVE  \A x, y \in At(m)' : x = y
    BY <1>4 DEF OneRecordPerMac
  <2>1. m = mac => At(m) = {}
    BY <1>1 DEF NoneYet, Undisturbed, mac
  <2>2. \A x, y \in At(m) : x = y
    BY DEF OneRecordPerMac
  <2> QED
    BY <1>14, <2>1, <2>2
<1>17. NothingReturns'
  BY <1>4, <1>6, <1>7 DEF NothingReturns, Exists
<1>18. InHand'
  <2> SUFFICES ASSUME NEW p \in Request, Puts(p), p # r, request'[p] = request[p]
               PROVE  /\ device'[request[p].id] = NoDevice /\ request[p].id \notin removed
                      /\ \A q \in Request : Puts(q)' /\ request'[q].id = request[p].id => q = p
    BY <1>4, <1>9 DEF InHand, Exists
  <2>1. request[p].id # id /\ request[p].id \in Id
    BY <1>6, Runners DEF Transferring
  <2> QED
    BY <1>7, <1>9, <2>1 DEF InHand, Exists
<1>19. Kept'
  <2> SUFFICES ASSUME NEW c \in created
               PROVE  \/ Exists(c[1])' \/ c[1] \in removed \/ "failure" \in spoilt[c[2]]
                      \/ \E q \in Request : Puts(q)' /\ request'[q].id = c[1]
    BY <1>4 DEF Kept
  <2>1. c[1] \in Id
    BY DEF TypesOK
  <2>2. Exists(c[1]) \/ c[1] = id => Exists(c[1])'
    BY <1>5, <1>7, <2>1 DEF Exists
  <2>3. \A q \in Request : Puts(q) /\ request[q].id # id => Puts(q)' /\ request'[q] = request[q]
    BY <1>3 DEF Puts, id
  <2> QED
    BY <2>2, <2>3 DEF Kept
<1> QED
  BY <1>11, <1>12, <1>13, <1>15, <1>16, <1>17, <1>18, <1>19

(* A call fails, or the process stops.                                     *)
LEMMA FailStep == ASSUME IInv, NEW r \in Request, Fail(r) PROVE IInv'
<1> USE DEF IInv
<1>1. Runs(r) /\ request[r] \in RequestType
  BY Runners DEF Fail, Runs
<1>2. Grows /\ "failure" \in spoilt'[request[r].mac]
  BY <1>1, Runners, SpoilGrows DEF Fail
<1>3. UNCHANGED <<device, lock, created, removed>>
  BY DEF Fail
<1>4. CASE request[r].kind # "transfer"
  <2>1. Goto(r, "idle") \/ (request[r].kind = "pair" /\ Goto(r, "release"))
    BY DEF Fail, AfterLink
  <2>2. CASE Goto(r, "idle")
    BY <1>1, <1>2, <1>3, <1>4, <2>2, GotoStep
  <2>3. CASE request[r].kind = "pair" /\ Goto(r, "release")
    <3>1. [request[r] EXCEPT !.pc = "release"] \in RequestType
      BY <1>1, <2>3, Kinds DEF Runs, Pairing, RequestType
    <3> QED
      BY <1>1, <1>2, <1>3, <1>4, <2>3, <3>1, GotoStep
  <2> QED
    BY <2>1, <2>2, <2>3
<1>5. CASE request[r].kind = "transfer"
  <2>1. Becomes(r, Idle)
    BY <1>5, GotoBecomes DEF Fail, AfterLink
  <2>2. /\ request' \in [Request -> RequestType]
        /\ request'[r] = Idle
        /\ \A q \in Request \ {r} : request'[q] = request[q]
    BY <2>1, IdleType, Become
  <2>3. TypesOK'
    BY <1>2, <1>3, <2>2 DEF TypesOK, Grows
  <2>4. \A q \in Request : Runs(q)' => Runs(q) /\ request'[q] = request[q]
    BY <2>2 DEF Runs, Idle
  <2>5. Calm
    BY <1>2, <1>3, <2>2, <2>4 DEF Calm, Grows, Creates
  <2> QED
    BY <2>3, <2>5, CalmStep
<1> QED
  BY <1>4, <1>5

LEMMA ExpireStep == ASSUME IInv, NEW mac \in Mac, LockExpires(mac) PROVE IInv'
<1> USE DEF IInv
<1>1. Grows
  BY SpoilGrows DEF LockExpires
<1>2. ASSUME NEW q \in Request, Runs(q), request[q].kind = "pair", request[q].mac = mac
      PROVE  "lapse" \in spoilt'[mac]
  BY <1>2, SpoilGrows DEF LockExpires, Active, Runs
<1>3. UNCHANGED <<device, request, created, removed>> /\ lock' = [lock EXCEPT ![mac] = "free"]
  BY DEF LockExpires
<1>4. TypesOK'
  BY <1>1, <1>3 DEF TypesOK, Grows
<1>5. ASSUME NEW q \in Request, Runs(q)', request[q].kind = "pair",
             "lapse" \notin spoilt'[request[q].mac]
      PROVE  lock'[request[q].mac] = lock[request[q].mac]
  <2>1. Runs(q) /\ request[q].mac \in Mac
    BY <1>3, <1>5, Runners DEF Runs
  <2>2. request[q].mac # mac
    BY <1>2, <1>5, <2>1
  <2> QED
    BY <1>3, <2>1, <2>2 DEF TypesOK
<1>6. Calm
  BY <1>1, <1>3, <1>5 DEF Calm, Grows, Runs, Creates
<1> QED
  BY <1>4, <1>6, CalmStep

-----------------------------------------------------------------------------
(* Every action.                                                           *)

LEMMA ReadStep == ASSUME IInv, NEW r \in Request, ReadDevice(r) PROVE IInv'
<1> USE DEF IInv
<1>1. request[r] \in Pairing /\ Runs(r) /\ request[r].kind = "pair" /\ request[r].mac \in Mac
  BY Runners, Steps DEF ReadDevice, Runs, Pairing
<1>2. UNCHANGED <<device, lock, created, removed>>
  BY DEF ReadDevice
<1>3. \A pc \in {"create", "release"} : [request[r] EXCEPT !.pc = pc] \in RequestType
  BY <1>1 DEF Pairing, RequestType
<1>4. ASSUME NEW pc \in {"create", "release"}, Goto(r, pc), UNCHANGED spoilt,
             pc = "create" => At(request[r].mac) = {}
      PROVE  IInv'
  BY <1>1, <1>2, <1>3, <1>4, SameSpoilt, GotoStep
<1>5. CASE At(request[r].mac) = {}
  BY <1>4, <1>5 DEF ReadDevice
<1>6. CASE At(request[r].mac) # {}
  <2>1. PICK id \in At(request[r].mac) :
          \/ Goto(r, "release") /\ UNCHANGED spoilt
          \/ /\ request' = [request EXCEPT ![r] = [request[r] EXCEPT !.pc = "upsert", !.id = id]]
             /\ Spoil(request[r].mac, Disturbs("pair", request[r].mac, id))
    BY <1>6 DEF ReadDevice
  <2>2. CASE Goto(r, "release") /\ UNCHANGED spoilt
    BY <1>4, <2>2
  <2>3. CASE /\ request' = [request EXCEPT ![r] = [request[r] EXCEPT !.pc = "upsert", !.id = id]]
             /\ Spoil(request[r].mac, Disturbs("pair", request[r].mac, id))
    <3> DEFINE state == [request[r] EXCEPT !.pc = "upsert", !.id = id]
    <3>1. id \in Id
      BY DEF At
    <3>2. /\ state \in RequestType /\ state.kind = request[r].kind /\ state.mac = request[r].mac
          /\ state.pc = "upsert"
      BY <1>1, <3>1 DEF Pairing, RequestType
    <3>3. Becomes(r, state)
      BY <2>3 DEF Becomes
    <3>4. Grows
      BY <1>1, <2>3, DisturbsType, SpoilGrows
    <3> HIDE DEF state
    <3> QED
      BY <1>1, <1>2, <3>2, <3>3, <3>4, GoOn
  <2> QED
    BY <2>1, <2>2, <2>3
<1> QED
  BY <1>5, <1>6

LEMMA NextInv == IInv /\ [Next]_vars => IInv'
<1> SUFFICES ASSUME IInv, [Next]_vars PROVE IInv'
  OBVIOUS
<1> USE DEF IInv
<1>1. ASSUME UNCHANGED <<device, lock, request, created, removed, spoilt>> PROVE IInv'
  BY <1>1 DEF TypesOK, MacIsFixed, PairsAlone, TransfersAlone, NoneYet, OneRecordPerMac, NothingReturns,
              InHand, Kept, Runs, Creates, Puts, Exists, At, Undisturbed
<1>2. ASSUME NEW mac \in Mac, ScanQrCode(mac) \/ PairInitExpires(mac) PROVE IInv'
  BY <1>1, <1>2 DEF ScanQrCode, PairInitExpires
<1>3. ASSUME NEW r \in Request, NEW mac \in Mac, NEW sim \in Sim \cup {NoSim}, AcquireLock(r, mac, sim)
      PROVE  IInv'
  <2> DEFINE state == [kind |-> "pair", pc |-> "read", mac |-> mac, sim |-> sim, id |-> "new"]
  <2>1. /\ state \in Pairing /\ state.kind = "pair" /\ state.pc = "read" /\ state.mac = mac
        /\ Start(r, state)
    BY <1>3 DEF Pairing, AcquireLock
  <2> HIDE DEF state
  <2> QED
    BY <1>3, <2>1, StartStep DEF AcquireLock
<1>4. ASSUME NEW r \in Request, NEW id \in Id, NEW sim \in Sim \cup {NoSim}, SetConnectionMethod(r, id, sim)
      PROVE  IInv'
  <2> DEFINE state == [kind |-> "connect", pc |-> IF sim = NoSim THEN "unlink" ELSE "getLte",
                       mac |-> device[id].mac, id |-> id, sim |-> sim]
  <2>1. device[id].mac \in Mac
    BY <1>4 DEF TypesOK, Record, SetConnectionMethod, Exists
  <2>2. state \in Connecting /\ state.kind = "connect" /\ state.pc \notin {"create", "put"} /\ Start(r, state)
    BY <1>4, <2>1 DEF Connecting, SetConnectionMethod
  <2> HIDE DEF state
  <2> QED
    BY <1>4, <2>2, StartStep DEF SetConnectionMethod
<1>5. ASSUME NEW r \in Request, NEW id \in Id, RemoveDevice(r, id)
      PROVE  IInv'
  <2> DEFINE state == [kind |-> "remove", pc |-> "unlink", mac |-> device[id].mac, id |-> id]
  <2>1. device[id].mac \in Mac
    BY <1>5 DEF TypesOK, Record, RemoveDevice, Exists
  <2>2. state \in Removing /\ state.kind = "remove" /\ state.pc \notin {"create", "put"} /\ Start(r, state)
    BY <1>5, <2>1 DEF Removing, RemoveDevice
  <2> HIDE DEF state
  <2> QED
    BY <1>5, <2>2, StartStep DEF RemoveDevice
<1>6. ASSUME NEW r \in Request, NEW id \in Id, TransferDevice(r, id)
      PROVE  IInv'
  <2> DEFINE state == [kind |-> "transfer", pc |-> "take", mac |-> device[id].mac, id |-> id,
                       record |-> device[id]]
  <2>1. device[id] \in Record /\ device[id].mac \in Mac /\ <<id, device[id].mac>> \in created
    BY <1>6 DEF TypesOK, Record, TransferDevice, Exists, MacIsFixed
  <2>2. /\ state \in Transferring /\ state.kind = "transfer" /\ state.pc \notin {"create", "put"}
        /\ Start(r, state) /\ <<state.id, state.mac>> \in created /\ state.record.mac = state.mac
    BY <1>6, <2>1 DEF Transferring, TransferDevice
  <2> HIDE DEF state
  <2> QED
    BY <1>6, <2>2, StartStep DEF TransferDevice
<1>7. ASSUME NEW r \in Request, UpsertDevice(r)
      PROVE  IInv'
  <2>1. request[r] \in Pairing /\ Runs(r)
    BY <1>7, Runners, Steps DEF UpsertDevice, Runs
  <2>2. PICK pc \in {"release", "getLte"} : Goto(r, pc)
    BY <1>7 DEF UpsertDevice
  <2>3. [request[r] EXCEPT !.pc = pc] \in RequestType /\ request[r].kind = "pair"
    BY <2>1 DEF Pairing, RequestType
  <2> QED
    BY <1>7, <2>1, <2>2, <2>3, SameSpoilt, GotoStep DEF UpsertDevice
<1>8. ASSUME NEW r \in Request, ReleaseLock(r)
      PROVE  IInv'
  <2>1. request[r] \in Pairing /\ Runs(r) /\ request[r].kind = "pair"
    BY <1>8, Runners, Steps DEF ReleaseLock, Runs, Pairing
  <2>2. Becomes(r, Idle)
    BY <1>8, GotoBecomes DEF ReleaseLock
  <2> QED
    BY <1>8, <2>1, <2>2, IdleType, SameSpoilt, GoOn DEF ReleaseLock
<1>9. ASSUME NEW r \in Request, GetLte(r) \/ LinkDevice(r)
      PROVE  IInv'
  <2>1. request[r] \in Pairing \cup Connecting /\ Runs(r)
    BY <1>9, Runners, Steps DEF GetLte, LinkDevice, Runs
  <2>2. PICK pc \in {"link", "release", "idle"} :
           Goto(r, pc) /\ (pc = "release" => request[r].kind = "pair")
    BY <1>9 DEF GetLte, LinkDevice, AfterLink
  <2>3. (pc = "idle" \/ [request[r] EXCEPT !.pc = pc] \in RequestType) /\ request[r].kind # "transfer"
    BY <2>1, <2>2 DEF Pairing, Connecting, RequestType
  <2> QED
    BY <1>9, <2>1, <2>2, <2>3, SameSpoilt, GotoStep DEF GetLte, LinkDevice
<1>10. ASSUME NEW r \in Request, UnlinkDevice(r) \/ ForgetDevice(r)
       PROVE  IInv'
  <2>1. request[r] \in Connecting \cup Removing /\ Runs(r)
    BY <1>10, Runners, Steps DEF UnlinkDevice, ForgetDevice, Runs
  <2>2. PICK pc \in {"forget", "delete", "idle"} :
           Goto(r, pc) /\ (pc # "idle" => request[r] \in Removing)
    BY <1>10, <2>1, Runners, Steps DEF UnlinkDevice, ForgetDevice, Connecting
  <2>3. (pc = "idle" \/ [request[r] EXCEPT !.pc = pc] \in RequestType) /\ request[r].kind # "transfer"
    BY <2>1, <2>2 DEF Connecting, Removing, RequestType
  <2> QED
    BY <1>10, <2>1, <2>2, <2>3, SameSpoilt, GotoStep DEF UnlinkDevice, ForgetDevice
<1>11. ASSUME NEW r \in Request, DeleteDevice(r)
       PROVE  IInv'
  <2>1. request[r] \in Removing /\ Runs(r) /\ ~Puts(r) /\ request[r].id \in Id
    BY <1>11, Runners, Steps DEF DeleteDevice, Runs, Puts, Removing
  <2>2. Becomes(r, Idle)
    BY <1>11, GotoBecomes DEF DeleteDevice
  <2> QED
    BY <1>11, <2>1, <2>2, IdleType, DropStep DEF DeleteDevice
<1>12. ASSUME NEW r \in Request, TakeRecord(r)
       PROVE  IInv'
  <2>1. request[r] \in Transferring /\ Runs(r) /\ ~Puts(r) /\ request[r].id \in Id
    BY <1>12, Runners, Steps DEF TakeRecord, Runs, Puts, Transferring
  <2>2. UNCHANGED <<lock, created, spoilt, removed>>
        /\ device' = [device EXCEPT ![request[r].id] = NoDevice]
    BY <1>12 DEF TakeRecord
  <2>3. CASE Exists(request[r].id)
    <3> DEFINE state == [request[r] EXCEPT !.pc = "put"]
    <3>1. Becomes(r, state) /\ state \in RequestType
      BY <1>12, <2>1, <2>3, GotoBecomes DEF TakeRecord, Transferring, RequestType
    <3> QED
      BY <2>1, <2>2, <2>3, <3>1, DropStep
  <2>4. CASE ~Exists(request[r].id)
    <3>1. Becomes(r, Idle)
      BY <1>12, <2>4, GotoBecomes DEF TakeRecord
    <3> QED
      BY <2>1, <2>2, <2>4, <3>1, IdleType, DropStep
  <2> QED
    BY <2>3, <2>4
<1>13. CASE UNCHANGED vars
  BY <1>1, <1>13 DEF vars
<1> QED
  BY <1>2, <1>3, <1>4, <1>5, <1>6, <1>7, <1>8, <1>9, <1>10, <1>11, <1>12, <1>13, ReadStep, CreateStep, PutStep,
     FailStep, ExpireStep DEF Next

LEMMA InitInv == Init => IInv
<1> SUFFICES ASSUME Init PROVE IInv
  OBVIOUS
<1>1. \A r \in Request : request[r] = Idle /\ ~Runs(r) /\ ~Puts(r) /\ ~Creates(r)
  BY DEF Init, Idle, Runs, Puts, Creates
<1>2. created = {<<id, device[id].mac>> : id \in {i \in Id : Exists(i)}}
  BY DEF Init
<1>3. /\ device \in [Id -> {NoDevice} \cup Record]
      /\ \A x, y \in Id : Exists(x) /\ Exists(y) => x = y
  <2>1. CASE device = [id \in Id |-> NoDevice]
    BY <2>1 DEF Exists
  <2>2. CASE \E d \in Id, m \in Mac :
               device = [id \in Id |-> IF id = d THEN [mac |-> m, paired |-> FALSE] ELSE NoDevice]
    BY <2>2 DEF Exists, Record
  <2> QED
    BY <2>1, <2>2 DEF Init
<1>4. \A id \in Id : Exists(id) => device[id] \in Record /\ device[id].mac \in Mac
  BY <1>3 DEF Exists, Record
<1>5. created \subseteq Id \X Mac
  BY <1>2, <1>4
<1>6. TypesOK
  BY <1>1, <1>3, <1>5, IdleType DEF Init, TypesOK
<1>7. MacIsFixed
  <2>1. \A id \in Id : Exists(id) => <<id, device[id].mac>> \in created
    BY <1>2
  <2>2. \A c, d \in created : c[1] = d[1] => c = d
    BY <1>2
  <2> QED
    BY <1>1, <2>1, <2>2 DEF MacIsFixed, Init
<1>8. OneRecordPerMac
  BY <1>3 DEF OneRecordPerMac, At
<1>9. NothingReturns /\ Kept
  BY <1>2 DEF Init, NothingReturns, Kept
<1> QED
  BY <1>1, <1>6, <1>7, <1>8, <1>9 DEF IInv, PairsAlone, TransfersAlone, NoneYet, InHand

-----------------------------------------------------------------------------
(* Links and the internal device service: a second inductive invariant.    *)

(* The steps in which a pairing or a connection has found its device.      *)
Names(r) == request[r].pc \in {"upsert", "getLte", "link"}

Here(id) == Exists(id) \/ \E r \in Request : Puts(r) /\ request[r].id = id

Clean(mac) == spoilt[mac] \cap {"failure", "removal"} = {}

HasId ==
    \A r \in Request : Runs(r) /\ (Names(r) \/ request[r].kind \in {"connect", "remove"}) =>
        <<request[r].id, request[r].mac>> \in created

RemovesAlone ==
    \A r \in Request : Runs(r) /\ request[r].kind = "remove" /\ "removal" \notin spoilt[request[r].mac] =>
        \A q \in Request :
            Runs(q) /\ request[q].mac = request[r].mac /\ request[q].id = request[r].id => q = r

NamedIsHere ==
    \A r \in Request, c \in created :
        Names(r) /\ request[r].id = c[1] /\ Clean(c[2]) => Here(c[1])

(* A removal has unlinked its device by the time the record goes.          *)
Unlinked ==
    \A r \in Request, c \in created :
        request[r].pc \in {"forget", "delete"} /\ request[r].id = c[1] /\ Clean(c[2]) =>
            \A row \in link : row[1] # c[1]

LinkedIsHere ==
    \A row \in link, c \in created : row[1] = c[1] /\ Clean(c[2]) => Here(c[1])

LinksInv == HasId /\ RemovesAlone /\ NamedIsHere /\ Unlinked /\ LinkedIsHere

RemovesARecord ==
    \A r \in Request : Runs(r) /\ request[r].kind = "remove" /\ spoilt[request[r].mac] = {} =>
        Exists(request[r].id)

TransfersKnown ==
    \A r \in Request : Runs(r) /\ request[r].kind = "transfer" /\ spoilt[request[r].mac] = {} =>
        request[r].mac \in known

(* A record the device service does not know is about to be announced to   *)
(* it, or about to be deleted.                                             *)
KnownSoon ==
    \A id \in Id : Exists(id) /\ spoilt[device[id].mac] = {} =>
        \/ device[id].mac \in known
        \/ \E r \in Request :
              /\ request[r].pc = "upsert" \/ (request[r].pc = "delete" /\ request[r].id = id)
              /\ request[r].mac = device[id].mac

KnownInv == RemovesARecord /\ TransfersKnown /\ KnownSoon

LEMMA OneMac ==
    ASSUME MacIsFixed, NEW id, NEW m, NEW n, <<id, m>> \in created, <<id, n>> \in created
    PROVE  m = n
<1> DEFINE c == <<id, m>>
           d == <<id, n>>
<1>1. c \in created /\ d \in created /\ c[1] = d[1]
  OBVIOUS
<1> HIDE DEF c, d
<1>2. c = d
  BY <1>1 DEF MacIsFixed
<1> QED
  BY <1>2 DEF c, d

LEMMA CreatedMac ==
    ASSUME TypesOK, MacIsFixed, NEW id, NEW m, <<id, m>> \in created
    PROVE  /\ id \in Id /\ m \in Mac
           /\ \A c \in created : c[1] = id => c[2] = m
           /\ Exists(id) => device[id].mac = m
<1>1. id \in Id /\ m \in Mac
  BY DEF TypesOK
<1>2. ASSUME NEW c \in created, c[1] = id PROVE c[2] = m
  <2>1. c = <<id, c[2]>>
    BY <1>2 DEF TypesOK
  <2> QED
    BY <2>1, OneMac
<1>3. Exists(id) => device[id].mac = m
  BY <1>1, OneMac DEF MacIsFixed
<1> QED
  BY <1>1, <1>2, <1>3

-----------------------------------------------------------------------------
(* A request that runs takes a step.                                       *)

(* It ends, or goes on for the same device, or a pairing has found it.     *)
Advances(r, state) ==
    /\ Runs(r) /\ state \in RequestType /\ Becomes(r, state) /\ Grows
    /\ \/ state = Idle
       \/ /\ state.kind = request[r].kind /\ state.mac = request[r].mac
          /\ \/ state.id = request[r].id
             \/ /\ state.kind = "pair"
                /\ \A q \in Request : /\ Runs(q) /\ request[q].kind = "remove"
                                      /\ request[q].mac = state.mac /\ request[q].id = state.id
                                      => "removal" \in spoilt'[state.mac]

LEMMA AdvanceFacts ==
    ASSUME TypesOK, NEW r \in Request, NEW state, Advances(r, state)
    PROVE  /\ request'[r] = state /\ (\A q \in Request \ {r} : request'[q] = request[q])
           /\ \A q \in Request : Runs(q)' =>
                 /\ Runs(q) /\ request[q].mac \in Mac
                 /\ request'[q].kind = request[q].kind /\ request'[q].mac = request[q].mac
                 /\ request[q].kind # "pair" => request'[q].id = request[q].id
           /\ \A m \in Mac : spoilt'[m] = {} => spoilt[m] = {}
           /\ \A m \in Mac : Clean(m)' => Clean(m)
<1>1. request'[r] = state /\ (\A q \in Request \ {r} : request'[q] = request[q])
  BY Become DEF Advances
<1>2. ASSUME NEW q \in Request, Runs(q)'
      PROVE  /\ Runs(q) /\ request[q].mac \in Mac
             /\ request'[q].kind = request[q].kind /\ request'[q].mac = request[q].mac
             /\ request[q].kind # "pair" => request'[q].id = request[q].id
  <2>1. Runs(q)
    BY <1>1, <1>2 DEF Advances, Runs
  <2>2. q = r => state # Idle
    BY <1>1, <1>2 DEF Runs, Idle
  <2> QED
    BY <1>1, <2>1, <2>2, Runners DEF Advances
<1>3. \A m \in Mac : spoilt[m] \subseteq spoilt'[m]
  BY DEF Advances, Grows
<1>4. \A m \in Mac : Clean(m)' => Clean(m)
  BY <1>3 DEF Clean
<1> QED
  BY <1>1, <1>2, <1>3, <1>4 DEF Clean

LEMMA AdvanceAlone ==
    ASSUME TypesOK, RemovesAlone, NEW r \in Request, NEW state, Advances(r, state)
    PROVE  RemovesAlone'
<1> SUFFICES ASSUME NEW p \in Request, Runs(p)', request'[p].kind = "remove",
                    "removal" \notin spoilt'[request'[p].mac],
                    NEW q \in Request, Runs(q)', request'[q].mac = request'[p].mac,
                    request'[q].id = request'[p].id
             PROVE  q = p
  BY DEF RemovesAlone
<1>1. /\ Runs(p) /\ Runs(q) /\ request[p].kind = "remove" /\ request[p].mac \in Mac
      /\ request'[p].mac = request[p].mac /\ request'[q].mac = request[q].mac
      /\ request'[p].id = request[p].id
  BY AdvanceFacts
<1>2. "removal" \notin spoilt[request[p].mac]
  BY <1>1 DEF Advances, Grows
<1>3. CASE request'[q].id = request[q].id
  BY <1>1, <1>2, <1>3 DEF RemovesAlone
<1>4. CASE request'[q].id # request[q].id
  <2>1. q = r /\ request'[r] = state
    BY <1>4, AdvanceFacts
  <2>2. state # Idle
    BY <2>1 DEF Runs, Idle
  <2> QED
    BY <1>1, <1>4, <2>1, <2>2 DEF Advances
<1> QED
  BY <1>3, <1>4

(* Who is here stays here, but for a removal that nobody runs into.        *)
LEMMA LinksAdvance ==
    ASSUME TypesOK, MacIsFixed, LinksInv, NEW r \in Request, NEW state, Advances(r, state),
           link' \subseteq link \/ (Names(r) /\ link' = link \cup {<<request[r].id, request[r].sim>>}),
           created \subseteq created', MacIsFixed', TypesOK',
           \A c \in created' \ created : Here(c[1])',
           \A c \in created' : state.pc \in {"upsert", "getLte", "link"} /\ state.id = c[1] /\ Clean(c[2])' =>
               Here(c[1])',
           state.pc \in {"forget", "delete"} =>
               \/ request[r].pc \in {"forget", "delete"}
               \/ \A row \in link' : row[1] # state.id,
           state.pc \in {"upsert", "getLte", "link"} => <<state.id, state.mac>> \in created',
           \A c \in created : Here(c[1]) /\ Clean(c[2])' =>
               \/ Here(c[1])'
               \/ request[r].pc = "delete" /\ state = Idle /\ c[1] = request[r].id
    PROVE  LinksInv'
<1> USE DEF LinksInv
<1>1. /\ request'[r] = state /\ (\A q \in Request \ {r} : request'[q] = request[q])
      /\ \A q \in Request : Runs(q)' =>
            /\ Runs(q) /\ request[q].mac \in Mac
            /\ request'[q].kind = request[q].kind /\ request'[q].mac = request[q].mac
            /\ request[q].kind # "pair" => request'[q].id = request[q].id
      /\ \A m \in Mac : Clean(m)' => Clean(m)
  BY AdvanceFacts
<1>2. RemovesAlone'
  BY AdvanceAlone
<1>3. HasId'
  <2> SUFFICES ASSUME NEW q \in Request, Runs(q)',
                      Names(q)' \/ request'[q].kind \in {"connect", "remove"}
               PROVE  <<request'[q].id, request'[q].mac>> \in created'
    BY DEF HasId
  <2>1. CASE q # r
    BY <1>1, <2>1 DEF HasId, Names, Runs
  <2>2. CASE q = r /\ Names(q)'
    BY <1>1, <2>2 DEF Names
  <2>3. CASE q = r /\ request'[q].kind \in {"connect", "remove"}
    BY <1>1, <2>3 DEF HasId
  <2> QED
    BY <2>1, <2>2, <2>3
<1>4. \A c \in created : c[2] \in Mac /\ c = <<c[1], c[2]>>
  BY DEF TypesOK
(* A removal about to delete a device, undisturbed.                        *)
<1>5. ASSUME request[r].pc = "delete", NEW c \in created, request[r].id = c[1], Clean(c[2])
      PROVE  /\ \A row \in link : row[1] # c[1]
             /\ \A q \in Request \ {r} : ~(Names(q) /\ request[q].id = c[1])
  <2>1. request[r].kind = "remove" /\ Runs(r)
    BY <1>5, Runners, Steps DEF Removing, Runs
  <2>2. request[r].mac = c[2]
    BY <1>4, <1>5, <2>1, OneMac, ZenonT(40) DEF HasId
  <2>3. ASSUME NEW q \in Request \ {r}, Names(q), request[q].id = c[1]
        PROVE  FALSE
    <3>1. Runs(q)
      BY <2>3 DEF Names, Runs
    <3>2. request[q].mac = c[2]
      BY <1>4, <2>3, <3>1, OneMac DEF HasId
    <3> QED
      BY <1>5, <2>1, <2>2, <2>3, <3>1, <3>2 DEF RemovesAlone, Clean
  <2> QED
    BY <1>5, <2>3 DEF Unlinked
<1>6. NamedIsHere'
  <2> SUFFICES ASSUME NEW q \in Request, NEW c \in created', Names(q)', request'[q].id = c[1], Clean(c[2])'
               PROVE  Here(c[1])'
    BY DEF NamedIsHere
  <2>1. CASE q = r
    BY <1>1, <2>1 DEF Names
  <2>2. CASE q # r /\ c \in created
    <3>1. request'[q] = request[q] /\ Names(q) /\ Clean(c[2])
      BY <1>1, <1>4, <2>2 DEF Names
    <3>2. Here(c[1])
      BY <2>2, <3>1 DEF NamedIsHere
    <3>3. ~(request[r].pc = "delete" /\ c[1] = request[r].id)
      BY <1>5, <2>2, <3>1
    <3> QED
      BY <2>2, <3>2, <3>3
  <2> QED
    BY <2>1, <2>2
<1>7. Unlinked'
  <2> SUFFICES ASSUME NEW q \in Request, NEW c \in created', request'[q].pc \in {"forget", "delete"},
                      request'[q].id = c[1], Clean(c[2])', NEW row \in link', row[1] = c[1]
               PROVE  FALSE
    BY DEF Unlinked
  <2>1. Runs(q)' /\ request'[q] \in RequestType
    BY DEF Runs, TypesOK
  <2>2. /\ Runs(q) /\ request'[q].kind = "remove" /\ request[q].kind = "remove"
        /\ request[q].id = c[1]
    BY <1>1, <2>1, Steps DEF Removing
  <2>3. <<c[1], request[q].mac>> \in created
    BY <2>2 DEF HasId
  <2>4. c = <<c[1], c[2]>> /\ c[2] = request[q].mac /\ c \in created
    <3>1. c = <<c[1], c[2]>> /\ <<c[1], request[q].mac>> \in created'
      BY <2>3 DEF TypesOK
    <3>2. \A x, y \in created' : x[1] = y[1] => x = y
      BY DEF MacIsFixed
    <3>3. c = <<c[1], request[q].mac>>
      BY <3>1, <3>2
    <3> QED
      BY <2>3, <3>1, <3>3
  <2>5. Clean(c[2])
    BY <1>1, <1>4, <2>4
  <2>6. CASE row \in link
    <3>1. q = r
      BY <1>1, <2>2, <2>4, <2>5, <2>6 DEF Unlinked
    <3> QED
      BY <1>1, <2>2, <2>4, <2>5, <2>6, <3>1 DEF Unlinked
  <2>7. CASE row \notin link
    <3>1. Names(r) /\ row = <<request[r].id, request[r].sim>> /\ Runs(r)
      BY <2>7 DEF Advances
    <3>2. request[r].id = c[1]
      BY <3>1
    <3>3. request[r].mac = c[2]
      BY <2>4, <3>1, <3>2, OneMac, ZenonT(40) DEF HasId
    <3>4. r = q
      BY <2>2, <2>4, <2>5, <3>1, <3>2, <3>3 DEF RemovesAlone, Clean
    <3>5. request[r] \in Pairing \cup Connecting
      BY <3>1, Runners, Steps DEF Names
    <3> QED
      BY <2>2, <3>4, <3>5 DEF Pairing, Connecting
  <2> QED
    BY <2>6, <2>7
<1>8. LinkedIsHere'
  <2> SUFFICES ASSUME NEW row \in link', NEW c \in created', row[1] = c[1], Clean(c[2])', c \in created
               PROVE  Here(c[1])'
    BY DEF LinkedIsHere
  <2>1. Clean(c[2])
    BY <1>1, <1>4
  <2>2. CASE row \in link
    <3>1. Here(c[1])
      BY <2>1, <2>2 DEF LinkedIsHere
    <3>2. ~(request[r].pc = "delete" /\ c[1] = request[r].id)
      BY <1>5, <2>1, <2>2
    <3> QED
      BY <3>1, <3>2
  <2>3. CASE row \notin link
    <3>1. Names(r) /\ row = <<request[r].id, request[r].sim>>
      BY <2>3
    <3>2. request[r].id = c[1]
      BY <3>1
    <3>3. Here(c[1])
      BY <2>1, <3>1, <3>2 DEF NamedIsHere
    <3> QED
      BY <3>1, <3>3 DEF Names
  <2> QED
    BY <2>2, <2>3
<1> QED
  BY <1>2, <1>3, <1>6, <1>7, <1>8

(* A removal takes its device out of the service just before the record    *)
(* goes; a record appears when it is known or about to be announced.       *)
LEMMA KnownAdvance ==
    ASSUME IInv, LinksInv, KnownInv, IInv', NEW r \in Request, NEW state, Advances(r, state),
           \/ known \subseteq known'
           \/ /\ known' = known \ {request[r].mac} /\ UNCHANGED device
              /\ request[r].pc = "forget" /\ state.pc = "delete"
              /\ state.mac = request[r].mac /\ state.id = request[r].id,
           \A id \in Id : Exists(id)' =>
               \/ Exists(id) /\ device'[id].mac = device[id].mac
               \/ device'[id].mac \in known'
               \/ spoilt'[device'[id].mac] # {}
               \/ state.pc = "upsert" /\ state.mac = device'[id].mac,
           \A id \in Id : Exists(id) /\ ~Exists(id)' =>
               id = request[r].id /\ request[r].kind \in {"remove", "transfer"}
               /\ (request[r].kind = "remove" => state = Idle),
           request[r].pc = "upsert" => request[r].mac \in known' \/ spoilt'[request[r].mac] # {},
           request[r].pc = "delete" => device'[request[r].id] = NoDevice \/ spoilt'[request[r].mac] # {}
    PROVE  KnownInv'
<1> USE DEF IInv, LinksInv, KnownInv
<1>1. /\ request'[r] = state /\ (\A q \in Request \ {r} : request'[q] = request[q])
      /\ \A q \in Request : Runs(q)' =>
            /\ Runs(q) /\ request[q].mac \in Mac
            /\ request'[q].kind = request[q].kind /\ request'[q].mac = request[q].mac
            /\ request[q].kind # "pair" => request'[q].id = request[q].id
      /\ \A m \in Mac : spoilt'[m] = {} => spoilt[m] = {}
  BY AdvanceFacts
<1>2. Runs(r) /\ request[r].mac \in Mac
  BY Runners DEF Advances
<1>3. RemovesARecord'
  <2> SUFFICES ASSUME NEW q \in Request, Runs(q)', request'[q].kind = "remove", spoilt'[request'[q].mac] = {},
                      ~(device'[request'[q].id] # NoDevice)
               PROVE  FALSE
    BY DEF RemovesARecord, Exists
  <2>1. /\ Runs(q) /\ request[q].kind = "remove" /\ spoilt[request[q].mac] = {} /\ request[q].mac \in Mac
        /\ request'[q].id = request[q].id
    BY <1>1
  <2>2. Exists(request[q].id) /\ <<request[q].id, request[q].mac>> \in created
    BY <2>1 DEF RemovesARecord, HasId
  <2>3. request[q].id \in Id
    BY <2>2 DEF TypesOK
  <2>4. /\ request[q].id = request[r].id /\ request[r].kind \in {"remove", "transfer"}
        /\ (request[r].kind = "remove" => state = Idle)
    BY <2>1, <2>2, <2>3 DEF Exists
  <2>5. <<request[r].id, request[r].mac>> \in created
    BY <1>2, <2>4 DEF HasId, MacIsFixed
  <2>6. request[r].mac = request[q].mac
    BY <2>2, <2>4, <2>5, OneMac
  <2>7. q = r
    BY <1>2, <2>1, <2>4, <2>6 DEF RemovesAlone, TransfersAlone
  <2> QED
    BY <1>1, <2>1, <2>4, <2>7 DEF Runs, Idle
<1>4. ASSUME request[r].pc = "forget"
      PROVE  /\ request[r].kind = "remove" /\ <<request[r].id, request[r].mac>> \in created
             /\ request[r].id \in Id
             /\ spoilt[request[r].mac] = {} => Exists(request[r].id) /\ device[request[r].id].mac = request[r].mac
  <2>1. request[r].kind = "remove"
    BY <1>4, Runners, Steps DEF Removing
  <2>2. <<request[r].id, request[r].mac>> \in created
    BY <1>2, <2>1 DEF HasId
  <2> QED
    BY <1>2, <2>1, <2>2, CreatedMac DEF RemovesARecord
<1>5. TransfersKnown'
  <2> SUFFICES ASSUME NEW q \in Request, Runs(q)', request'[q].kind = "transfer", spoilt'[request'[q].mac] = {}
               PROVE  request'[q].mac \in known'
    BY DEF TransfersKnown
  <2>1. /\ Runs(q) /\ request[q].kind = "transfer" /\ spoilt[request[q].mac] = {} /\ request[q].mac \in Mac
        /\ request'[q].mac = request[q].mac
    BY <1>1
  <2>2. request[q].mac \in known
    BY <2>1 DEF TransfersKnown
  <2>3. request[r].mac = request[q].mac => r = q
    BY <1>2, <2>1 DEF TransfersAlone
  <2> QED
    BY <1>4, <2>1, <2>2, <2>3
<1>6. KnownSoon'
  <2> SUFFICES ASSUME NEW id \in Id, Exists(id)', spoilt'[device'[id].mac] = {}, device'[id].mac \notin known'
               PROVE  \E q \in Request :
                         /\ request'[q].pc = "upsert" \/ (request'[q].pc = "delete" /\ request'[q].id = id)
                         /\ request'[q].mac = device'[id].mac
    BY DEF KnownSoon
  <2>1. CASE state.pc = "upsert" /\ state.mac = device'[id].mac
    BY <1>1, <2>1
  <2>2. CASE Exists(id) /\ device'[id].mac = device[id].mac
    <3>1. device'[id].mac \in Mac /\ spoilt[device[id].mac] = {}
      <4>1. device'[id].mac \in Mac
        BY DEF TypesOK, Record, Exists
      <4> QED
        BY <1>1, <2>2, <4>1
    <3>2. CASE device[id].mac \in known
      <4>1. /\ request[r].mac = device[id].mac
            /\ request[r].pc = "forget" /\ state.pc = "delete"
            /\ state.mac = request[r].mac /\ state.id = request[r].id
        BY <2>2, <3>2
      <4>2. request[r].id \in At(request[r].mac) /\ id \in At(request[r].mac)
        BY <1>4, <2>2, <3>1, <4>1 DEF At
      <4>3. request[r].id = id
        BY <1>2, <3>1, <4>1, <4>2 DEF OneRecordPerMac
      <4> QED
        BY <1>1, <2>2, <4>1, <4>3
    <3>3. CASE device[id].mac \notin known
      <4>1. PICK q \in Request :
              /\ request[q].pc = "upsert" \/ (request[q].pc = "delete" /\ request[q].id = id)
              /\ request[q].mac = device[id].mac
        BY <2>2, <3>1, <3>3 DEF KnownSoon
      <4>2. q # r
        BY <2>2, <4>1 DEF Exists
      <4> QED
        BY <1>1, <2>2, <4>1, <4>2
    <3> QED
      BY <3>2, <3>3
  <2> QED
    BY <2>1, <2>2
<1> QED
  BY <1>3, <1>5, <1>6

-----------------------------------------------------------------------------
(* Every action keeps both.                                                *)

LinkStart(r, state) ==
    /\ Start(r, state)
    /\ state \in Pairing \cup Connecting \cup Removing \cup Transferring
    /\ state.pc \in {"read", "unlink", "getLte", "take"}
    /\ state.kind = "pair" => state.pc = "read"
    /\ state.kind # "pair" => Exists(state.id) /\ state.mac = device[state.id].mac /\ state.id \in Id
    /\ UNCHANGED <<device, known, link, created>>

LEMMA StartKeeps ==
    ASSUME IInv, LinksInv, KnownInv, NEW r \in Request, NEW state, LinkStart(r, state)
    PROVE  LinksInv' /\ KnownInv'
<1> USE DEF IInv, LinksInv, KnownInv
<1> DEFINE how == Disturbs(state.kind, state.mac, state.id)
<1>1. /\ state \in RequestType /\ state.mac \in Mac
      /\ state.pc \in {"read", "unlink", "getLte", "take"}
      /\ state.pc = "getLte" => state.kind = "connect"
  BY DEF LinkStart, RequestType, Pairing, Connecting, Removing, Transferring
<1>2. ~Runs(r) /\ Becomes(r, state) /\ Spoil(state.mac, how)
  BY DEF LinkStart, Start, Runs, Becomes
<1>3. request'[r] = state /\ \A q \in Request \ {r} : request'[q] = request[q]
  BY <1>1, <1>2, Become
<1>4. Grows /\ how \subseteq spoilt'[state.mac]
  BY <1>1, <1>2, DisturbsType, SpoilGrows
<1>5. ASSUME NEW q \in Request, Runs(q), request[q].mac = state.mac
      PROVE  /\ "transfer" \in {state.kind, request[q].kind} => "transfer" \in spoilt'[state.mac]
             /\ state.id = request[q].id /\ "remove" \in {state.kind, request[q].kind} =>
                   "removal" \in spoilt'[state.mac]
  BY <1>4, <1>5 DEF Disturbs, Active, Runs
<1> HIDE DEF how
<1>6. UNCHANGED <<device, known, link, created>>
  BY DEF LinkStart
<1>7. /\ \A m \in Mac : Clean(m)' => Clean(m)
      /\ \A m \in Mac : spoilt'[m] = {} => spoilt[m] = {}
  BY <1>4 DEF Clean, Grows
<1>8. state.kind # "pair" => <<state.id, state.mac>> \in created /\ Exists(state.id)
  BY DEF LinkStart, MacIsFixed
<1>9. HasId'
  <2> SUFFICES ASSUME NEW q \in Request, Runs(q)', Names(q)' \/ request'[q].kind \in {"connect", "remove"}
               PROVE  <<request'[q].id, request'[q].mac>> \in created
    BY <1>6 DEF HasId
  <2>1. CASE q = r
    BY <1>1, <1>3, <1>8, <2>1 DEF Names
  <2>2. CASE q # r
    BY <1>3, <2>2 DEF HasId, Names, Runs
  <2> QED
    BY <2>1, <2>2
<1>10. RemovesAlone'
  <2> SUFFICES ASSUME NEW p \in Request, Runs(p)', request'[p].kind = "remove",
                      "removal" \notin spoilt'[request'[p].mac],
                      NEW q \in Request, Runs(q)', request'[q].mac = request'[p].mac,
                      request'[q].id = request'[p].id
               PROVE  q = p
    BY DEF RemovesAlone
  <2>1. CASE p = r
    BY <1>3, <1>5, <2>1 DEF Runs
  <2>2. CASE q = r /\ p # r
    BY <1>3, <1>5, <2>2 DEF Runs
  <2>3. CASE p # r /\ q # r
    <3>1. Runs(p) /\ Runs(q) /\ request'[p] = request[p] /\ request'[q] = request[q]
      BY <1>3, <2>3 DEF Runs
    <3>2. "removal" \notin spoilt[request[p].mac]
      BY <1>4, <3>1, Runners DEF Grows
    <3> QED
      BY <3>1, <3>2 DEF RemovesAlone
  <2> QED
    BY <2>1, <2>2, <2>3
<1>11. ASSUME NEW i, Here(i) PROVE Here(i)'
  <2>1. \A q \in Request : Puts(q) => Puts(q)' /\ request'[q] = request[q]
    BY <1>2, <1>3 DEF Puts, Runs
  <2> QED
    BY <1>6, <1>11, <2>1 DEF Here, Exists
<1>12. \A c \in created : c[2] \in Mac
  BY DEF TypesOK
<1>13. NamedIsHere'
  <2> SUFFICES ASSUME NEW q \in Request, NEW c \in created, Names(q)', request'[q].id = c[1], Clean(c[2])
               PROVE  Here(c[1])
    BY <1>6, <1>7, <1>11, <1>12 DEF NamedIsHere
  <2>1. CASE q = r
    BY <1>1, <1>3, <1>8, <2>1 DEF Names, Here
  <2>2. CASE q # r
    BY <1>3, <2>2 DEF NamedIsHere, Names
  <2> QED
    BY <2>1, <2>2
<1>14. Unlinked'
  <2> SUFFICES ASSUME NEW q \in Request, NEW c \in created, request'[q].pc \in {"forget", "delete"},
                      request'[q].id = c[1], Clean(c[2])
               PROVE  \A row \in link : row[1] # c[1]
    BY <1>6, <1>7, <1>12 DEF Unlinked
  <2>1. q # r
    BY <1>1, <1>3
  <2> QED
    BY <1>3, <2>1 DEF Unlinked
<1>15. LinkedIsHere'
  BY <1>6, <1>7, <1>11, <1>12 DEF LinkedIsHere
<1>16. RemovesARecord'
  <2> SUFFICES ASSUME NEW q \in Request, Runs(q)', request'[q].kind = "remove", spoilt'[request'[q].mac] = {}
               PROVE  device[request'[q].id] # NoDevice
    BY <1>6 DEF RemovesARecord, Exists
  <2>1. CASE q = r
    BY <1>3, <1>8, <2>1 DEF Exists
  <2>2. CASE q # r
    BY <1>3, <1>7, <2>2, Runners DEF RemovesARecord, Runs, Exists
  <2> QED
    BY <2>1, <2>2
<1>17. TransfersKnown'
  <2> SUFFICES ASSUME NEW q \in Request, Runs(q)', request'[q].kind = "transfer", spoilt'[request'[q].mac] = {}
               PROVE  request'[q].mac \in known
    BY <1>6 DEF TransfersKnown
  <2>1. CASE q = r
    <3>1. Exists(state.id) /\ state.mac = device[state.id].mac /\ state.id \in Id
      BY <1>3, <2>1 DEF LinkStart
    <3>2. spoilt[state.mac] = {} /\ spoilt'[state.mac] = {}
      BY <1>1, <1>3, <1>7, <2>1
    <3>3. \A p \in Request : Runs(p) => request[p].mac # state.mac
      BY <1>3, <1>5, <2>1, <3>2
    <3>4. \A p \in Request : request[p].pc \in {"upsert", "delete"} => Runs(p)
      BY DEF Runs
    <3> QED
      BY <1>3, <2>1, <3>1, <3>2, <3>3, <3>4 DEF KnownSoon
  <2>2. CASE q # r
    BY <1>3, <1>7, <2>2, Runners DEF TransfersKnown, Runs
  <2> QED
    BY <2>1, <2>2
<1>18. KnownSoon'
  <2>1. \A id \in Id : Exists(id) => device[id].mac \in Mac
    BY DEF TypesOK, Record, Exists
  <2>2. \A q \in Request : request[q].pc \in {"upsert", "delete"} => request'[q] = request[q]
    BY <1>2, <1>3 DEF Runs
  <2> SUFFICES ASSUME NEW id \in Id, Exists(id), spoilt'[device[id].mac] = {}
               PROVE  \/ device[id].mac \in known
                      \/ \E q \in Request :
                            /\ request'[q].pc = "upsert" \/ (request'[q].pc = "delete" /\ request'[q].id = id)
                            /\ request'[q].mac = device[id].mac
    BY <1>6 DEF KnownSoon, Exists
  <2>3. spoilt[device[id].mac] = {}
    BY <1>7, <2>1
  <2> QED
    BY <2>2, <2>3 DEF KnownSoon
<1> QED
  BY <1>9, <1>10, <1>13, <1>14, <1>15, <1>16, <1>17, <1>18

(* Steps that touch no record.                                             *)
LEMMA PlainAdvance ==
    ASSUME IInv, LinksInv, KnownInv, IInv', NEW r \in Request, NEW state, Advances(r, state),
           UNCHANGED <<device, created>>,
           link' \subseteq link \/ (Names(r) /\ link' = link \cup {<<request[r].id, request[r].sim>>}),
           \/ known \subseteq known'
           \/ /\ known' = known \ {request[r].mac}
              /\ request[r].pc = "forget" /\ state.pc = "delete"
              /\ state.mac = request[r].mac /\ state.id = request[r].id,
           state.pc \in {"upsert", "getLte", "link"} =>
               \/ Exists(state.id) /\ state.id \in Id /\ state.mac = device[state.id].mac
               \/ Names(r) /\ state.id = request[r].id /\ state.mac = request[r].mac,
           state.pc \in {"forget", "delete"} =>
               \/ request[r].pc \in {"forget", "delete"}
               \/ \A row \in link' : row[1] # state.id,
           \/ "failure" \in spoilt'[request[r].mac]
           \/ /\ request[r].kind # "transfer" /\ request[r].pc # "delete"
              /\ request[r].pc = "upsert" => request[r].mac \in known'
    PROVE  LinksInv' /\ KnownInv'
<1> USE DEF IInv
<1>1. /\ request'[r] = state /\ (\A q \in Request \ {r} : request'[q] = request[q])
      /\ Runs(r) /\ request[r].mac \in Mac
  BY AdvanceFacts, Runners DEF Advances
<1>2. \A id \in Id : Exists(id)' <=> Exists(id)
  BY DEF Exists
<1>3. ASSUME NEW c \in created, Here(c[1]), Clean(c[2])' PROVE Here(c[1])'
  <2>1. CASE Exists(c[1])
    BY <2>1 DEF Exists, Here
  <2>2. CASE \E q \in Request : Puts(q) /\ request[q].id = c[1]
    <3>1. PICK q \in Request : Puts(q) /\ request[q].id = c[1]
      BY <2>2
    <3>2. Runs(q) /\ request[q].kind = "transfer"
      BY <3>1, Runners DEF Transferring
    <3>3. request[q].mac = c[2]
      BY <3>1, <3>2, CarriedMac
    <3>4. q # r
      BY <1>3, <3>2, <3>3 DEF Clean
    <3> QED
      BY <1>1, <3>1, <3>4 DEF Here, Puts
  <2> QED
    BY <1>3, <2>1, <2>2 DEF Here
<1>4. state.pc \in {"upsert", "getLte", "link"} => <<state.id, state.mac>> \in created
  BY <1>1 DEF MacIsFixed, HasId, LinksInv
<1>5. ASSUME NEW c \in created, state.pc \in {"upsert", "getLte", "link"}, state.id = c[1], Clean(c[2])'
      PROVE  Here(c[1])'
  <2>1. c[2] \in Mac
    BY DEF TypesOK
  <2>2. Clean(c[2])
    BY <1>5, <2>1, AdvanceFacts
  <2>3. Here(c[1])
    BY <1>5, <2>2 DEF NamedIsHere, LinksInv, Here
  <2> QED
    BY <1>3, <1>5, <2>3
<1>6. LinksInv'
  BY <1>3, <1>4, <1>5, LinksAdvance
<1>7. KnownInv'
  BY <1>2, KnownAdvance
<1> QED
  BY <1>6, <1>7

LEMMA PlainStep ==
    ASSUME IInv, LinksInv, KnownInv, IInv', NEW r \in Request,
           \/ ReadDevice(r) \/ UpsertDevice(r) \/ ReleaseLock(r) \/ GetLte(r) \/ LinkDevice(r)
           \/ UnlinkDevice(r) \/ ForgetDevice(r) \/ Fail(r)
    PROVE  LinksInv' /\ KnownInv'
<1> USE DEF IInv
<1>1. Runs(r) /\ request[r] \in RequestType /\ request[r].mac \in Mac
  BY Runners DEF Runs, ReadDevice, UpsertDevice, ReleaseLock, GetLte, LinkDevice, UnlinkDevice, ForgetDevice, Fail
<1>2. UNCHANGED <<device, created>>
  BY DEF ReadDevice, UpsertDevice, ReleaseLock, GetLte, LinkDevice, UnlinkDevice, ForgetDevice, Fail
(* The step named pc comes next.                                           *)
<1>3. ASSUME NEW pc, Goto(r, pc), pc = "idle" \/ [request[r] EXCEPT !.pc = pc] \in RequestType, Grows
      PROVE  \E state \in RequestType :
                /\ Advances(r, state) /\ state.pc = pc
                /\ pc # "idle" => state.id = request[r].id /\ state.mac = request[r].mac
  <2>1. CASE pc = "idle"
    BY <1>1, <1>3, <2>1, GotoBecomes, IdleType DEF Advances, Idle
  <2>2. CASE pc # "idle"
    <3> DEFINE state == [request[r] EXCEPT !.pc = pc]
    <3>1. request[r] \in Pairing \cup Connecting \cup Removing \cup Transferring
      BY <1>1, Kinds DEF Runs
    <3>2. /\ state.kind = request[r].kind /\ state.mac = request[r].mac /\ state.id = request[r].id
          /\ state.pc = pc
      BY <3>1 DEF Pairing, Connecting, Removing, Transferring
    <3>3. Becomes(r, state) /\ state \in RequestType
      BY <1>3, <2>2, GotoBecomes
    <3> HIDE DEF state
    <3>4. Advances(r, state)
      BY <1>1, <1>3, <3>2, <3>3 DEF Advances
    <3> QED
      BY <3>2, <3>3, <3>4
  <2> QED
    BY <2>1, <2>2
<1>4. CASE ReadDevice(r)
  <2>1. request[r] \in Pairing /\ request[r].kind = "pair" /\ request[r].pc = "read"
    BY <1>1, <1>4, Steps, ZenonT(40) DEF ReadDevice, Pairing
  <2>2. ASSUME NEW pc \in {"create", "release"}, Goto(r, pc), UNCHANGED spoilt
        PROVE  LinksInv' /\ KnownInv'
    <3>1. [request[r] EXCEPT !.pc = pc] \in RequestType
      BY <2>1 DEF Pairing, RequestType
    <3>2. PICK state \in RequestType : Advances(r, state) /\ state.pc = pc
      BY <1>3, <2>2, <3>1, SameSpoilt
    <3> QED
      BY <1>2, <1>4, <2>1, <3>2, PlainAdvance DEF ReadDevice
  <2>3. CASE At(request[r].mac) = {}
    BY <1>4, <2>2, <2>3 DEF ReadDevice
  <2>4. CASE At(request[r].mac) # {}
    <3>1. PICK id \in At(request[r].mac) :
            \/ Goto(r, "release") /\ UNCHANGED spoilt
            \/ /\ request' = [request EXCEPT ![r] = [request[r] EXCEPT !.pc = "upsert", !.id = id]]
               /\ Spoil(request[r].mac, Disturbs("pair", request[r].mac, id))
      BY <1>4, <2>4 DEF ReadDevice
    <3>2. CASE Goto(r, "release") /\ UNCHANGED spoilt
      BY <2>2, <3>2, SMTT(30)
    <3>3. CASE /\ request' = [request EXCEPT ![r] = [request[r] EXCEPT !.pc = "upsert", !.id = id]]
               /\ Spoil(request[r].mac, Disturbs("pair", request[r].mac, id))
      <4> DEFINE state == [request[r] EXCEPT !.pc = "upsert", !.id = id]
                 how == Disturbs("pair", request[r].mac, id)
      <4>1. id \in Id /\ Exists(id) /\ device[id].mac = request[r].mac
        BY DEF At
      <4>2. /\ state \in RequestType /\ state.kind = "pair" /\ state.mac = request[r].mac
            /\ state.pc = "upsert" /\ state.id = id
        BY <2>1, <4>1 DEF Pairing, RequestType
      <4>3. Becomes(r, state)
        BY <3>3 DEF Becomes
      <4>4. Grows /\ how \subseteq spoilt'[request[r].mac]
        BY <1>1, <3>3, DisturbsType, SpoilGrows
      <4>5. ASSUME NEW q \in Request, Runs(q), request[q].kind = "remove",
                   request[q].mac = request[r].mac, request[q].id = id
            PROVE  "removal" \in spoilt'[request[r].mac]
        BY <4>4, <4>5 DEF Disturbs, Active, Runs
      <4> HIDE DEF state, how
      <4>6. Advances(r, state)
        BY <1>1, <2>1, <4>2, <4>3, <4>4, <4>5 DEF Advances
      <4> QED
        BY <1>2, <1>4, <2>1, <4>1, <4>2, <4>6, PlainAdvance DEF ReadDevice
    <3> QED
      BY <3>1, <3>2, <3>3
  <2> QED
    BY <2>3, <2>4
<1>5. CASE UpsertDevice(r)
  <2>1. request[r] \in Pairing /\ request[r].kind = "pair" /\ request[r].pc = "upsert"
    BY <1>1, <1>5, Steps DEF UpsertDevice, Pairing
  <2>2. PICK pc \in {"release", "getLte"} : Goto(r, pc)
    BY <1>5 DEF UpsertDevice
  <2>3. [request[r] EXCEPT !.pc = pc] \in RequestType
    BY <2>1 DEF Pairing, RequestType
  <2>4. Grows /\ known' = known \cup {request[r].mac} /\ UNCHANGED link
    BY <1>5, SameSpoilt DEF UpsertDevice
  <2>5. PICK state \in RequestType : /\ Advances(r, state) /\ state.pc = pc
                                     /\ state.id = request[r].id /\ state.mac = request[r].mac
    BY <1>3, <2>2, <2>3, <2>4
  <2> QED
    BY <1>2, <2>1, <2>4, <2>5, PlainAdvance DEF Names
<1>6. CASE ReleaseLock(r)
  <2>1. request[r].kind = "pair" /\ request[r].pc = "release"
    BY <1>1, <1>6, Steps DEF ReleaseLock, Pairing
  <2>2. Grows /\ UNCHANGED <<known, link>> /\ Goto(r, "idle")
    BY <1>6, SameSpoilt DEF ReleaseLock
  <2>3. PICK state \in RequestType : Advances(r, state) /\ state.pc = "idle"
    BY <1>3, <2>2
  <2> QED
    BY <1>2, <2>1, <2>2, <2>3, PlainAdvance
<1>7. CASE GetLte(r) \/ LinkDevice(r)
  <2>1. /\ request[r] \in Pairing \cup Connecting /\ request[r].kind \in {"pair", "connect"}
        /\ request[r].pc \in {"getLte", "link"} /\ Names(r)
    BY <1>1, <1>7, Steps DEF GetLte, LinkDevice, Pairing, Connecting, Names
  <2>2. PICK pc \in {"link", "release", "idle"} :
           Goto(r, pc) /\ (pc = "release" => request[r].kind = "pair")
    BY <1>7 DEF GetLte, LinkDevice, AfterLink
  <2>3. pc = "idle" \/ [request[r] EXCEPT !.pc = pc] \in RequestType
    BY <2>1, <2>2 DEF Pairing, Connecting, RequestType
  <2>4. /\ Grows /\ UNCHANGED known
        /\ link' \subseteq link \/ link' = link \cup {<<request[r].id, request[r].sim>>}
    BY <1>7, SameSpoilt DEF GetLte, LinkDevice
  <2>5. PICK state \in RequestType : /\ Advances(r, state) /\ state.pc = pc
                                     /\ pc # "idle" => state.id = request[r].id /\ state.mac = request[r].mac
    BY <1>3, <2>2, <2>3, <2>4
  <2> QED
    BY <1>2, <2>1, <2>4, <2>5, PlainAdvance
<1>8. CASE UnlinkDevice(r)
  <2>1. /\ request[r] \in Connecting \cup Removing /\ request[r].kind \in {"connect", "remove"}
        /\ request[r].pc = "unlink"
    BY <1>1, <1>8, Steps DEF UnlinkDevice, Connecting, Removing
  <2>2. PICK pc \in {"forget", "idle"} : Goto(r, pc) /\ (pc = "forget" => request[r].kind = "remove")
    BY <1>8 DEF UnlinkDevice
  <2>3. pc = "idle" \/ [request[r] EXCEPT !.pc = pc] \in RequestType
    BY <2>1, <2>2 DEF Connecting, Removing, RequestType
  <2>4. Grows /\ UNCHANGED known /\ link' = {row \in link : row[1] # request[r].id}
    BY <1>8, SameSpoilt DEF UnlinkDevice
  <2>5. PICK state \in RequestType : /\ Advances(r, state) /\ state.pc = pc
                                     /\ pc # "idle" => state.id = request[r].id /\ state.mac = request[r].mac
    BY <1>3, <2>2, <2>3, <2>4
  <2>6. pc = "forget" => \A row \in link' : row[1] # state.id
    BY <2>4, <2>5
  <2> QED
    BY <1>2, <2>1, <2>4, <2>5, <2>6, PlainAdvance
<1>9. CASE ForgetDevice(r)
  <2>1. request[r] \in Removing /\ request[r].kind = "remove" /\ request[r].pc = "forget"
    BY <1>1, <1>9, Steps DEF ForgetDevice, Removing
  <2>2. [request[r] EXCEPT !.pc = "delete"] \in RequestType
    BY <2>1 DEF Removing, RequestType
  <2>3. Grows /\ known' = known \ {request[r].mac} /\ UNCHANGED link /\ Goto(r, "delete")
    BY <1>9, SameSpoilt DEF ForgetDevice
  <2>4. PICK state \in RequestType : /\ Advances(r, state) /\ state.pc = "delete"
                                     /\ state.id = request[r].id /\ state.mac = request[r].mac
    BY <1>3, <2>2, <2>3
  <2> QED
    BY <1>2, <2>1, <2>3, <2>4, PlainAdvance
<1>10. CASE Fail(r)
  <2>1. Grows /\ "failure" \in spoilt'[request[r].mac] /\ UNCHANGED <<known, link>>
    BY <1>1, <1>10, SpoilGrows DEF Fail
  <2>2. PICK pc \in {"release", "idle"} : Goto(r, pc) /\ (pc = "release" => request[r].kind = "pair")
    BY <1>10 DEF Fail, AfterLink
  <2>3. pc = "idle" \/ [request[r] EXCEPT !.pc = pc] \in RequestType
    BY <1>1, <2>2, Kinds DEF Runs, Pairing, RequestType
  <2>4. PICK state \in RequestType : Advances(r, state) /\ state.pc = pc
    BY <1>3, <2>1, <2>2, <2>3
  <2> QED
    BY <1>2, <2>1, <2>4, PlainAdvance
<1> QED
  BY <1>4, <1>5, <1>6, <1>7, <1>8, <1>9, <1>10

LEMMA CreateKeeps ==
    ASSUME IInv, LinksInv, KnownInv, IInv', NEW r \in Request, CreateDevice(r)
    PROVE  LinksInv' /\ KnownInv'
<1> USE DEF IInv
<1>1. request[r] \in Pairing /\ Runs(r) /\ request[r].kind = "pair" /\ request[r].mac \in Mac
      /\ request[r].pc = "create"
  BY Runners DEF CreateDevice, Creates, Pairing
<1>2. PICK id \in Id :
        /\ \A c \in created : c[1] # id
        /\ device' = [device EXCEPT ![id] = [mac |-> request[r].mac, paired |-> TRUE]]
        /\ created' = created \cup {<<id, request[r].mac>>}
        /\ request' = [request EXCEPT ![r].pc = "upsert", ![r].id = id]
  BY DEF CreateDevice
<1> DEFINE state == [request[r] EXCEPT !.pc = "upsert", !.id = id]
           record == [mac |-> request[r].mac, paired |-> TRUE]
<1>3. record \in Record /\ record # NoDevice /\ record.mac = request[r].mac
  BY <1>1, NoRecord DEF Record
<1>4. /\ state \in RequestType /\ state.kind = "pair" /\ state.mac = request[r].mac
      /\ state.pc = "upsert" /\ state.id = id
  BY <1>1 DEF Pairing, RequestType
<1>5. Becomes(r, state)
  BY <1>2 DEF Becomes
<1>6. device'[id] = record /\ \A i \in Id \ {id} : device'[i] = device[i]
  BY <1>2 DEF TypesOK
<1>7. UNCHANGED <<known, link, spoilt>> /\ Grows
  BY SameSpoilt DEF CreateDevice
<1> HIDE DEF state, record
(* No removal knows the new id.                                            *)
<1>8. \A q \in Request : Runs(q) /\ request[q].kind = "remove" => request[q].id # id
  <2> SUFFICES ASSUME NEW q \in Request, Runs(q), request[q].kind = "remove", request[q].id = id
               PROVE  FALSE
    OBVIOUS
  <2>1. <<id, request[q].mac>> \in created
    BY DEF LinksInv, HasId
  <2> QED
    BY <1>2, <2>1
<1>9. Advances(r, state)
  BY <1>1, <1>4, <1>5, <1>7, <1>8 DEF Advances
<1>10. /\ \A q \in Request \ {r} : request'[q] = request[q]
       /\ request'[r] = state
  BY <1>9, AdvanceFacts
<1>11. ASSUME NEW c \in created, Here(c[1]) PROVE Here(c[1])'
  <2>1. c[1] \in Id
    BY DEF TypesOK
  <2>2. Exists(c[1]) => Exists(c[1])'
    BY <1>2, <1>6, <2>1 DEF Exists
  <2>3. \A q \in Request : Puts(q) => Puts(q)' /\ request'[q] = request[q]
    BY <1>1, <1>10 DEF Puts
  <2> QED
    BY <1>11, <2>2, <2>3 DEF Here
<1>12. Here(id)'
  BY <1>3, <1>6 DEF Here, Exists
<1>13. LinksInv'
  <2>1. created \subseteq created' /\ <<id, request[r].mac>> \in created'
        /\ \A c \in created' \ created : c[1] = id
    BY <1>2
  <2>2. \A c \in created' : state.id = c[1] => Here(c[1])'
    BY <1>4, <1>12
  <2> QED
    BY <1>1, <1>4, <1>7, <1>9, <1>11, <1>12, <2>1, <2>2, LinksAdvance
<1>14. KnownInv'
  <2>1. \A i \in Id : Exists(i)' => (Exists(i) /\ device'[i].mac = device[i].mac)
                                    \/ (state.pc = "upsert" /\ state.mac = device'[i].mac)
    BY <1>3, <1>4, <1>6 DEF Exists
  <2>2. \A i \in Id : Exists(i) => Exists(i)'
    BY <1>3, <1>6 DEF Exists
  <2> QED
    BY <1>1, <1>7, <1>9, <2>1, <2>2, KnownAdvance
<1> QED
  BY <1>13, <1>14

LEMMA DropKeeps ==
    ASSUME IInv, LinksInv, KnownInv, IInv', NEW r \in Request, DeleteDevice(r) \/ TakeRecord(r)
    PROVE  LinksInv' /\ KnownInv'
<1> USE DEF IInv
<1> DEFINE id == request[r].id
<1>1. /\ Runs(r) /\ request[r].mac \in Mac /\ request[r].id \in Id
      /\ \/ DeleteDevice(r) /\ request[r].kind = "remove" /\ request[r].pc = "delete"
         \/ TakeRecord(r) /\ request[r] \in Transferring /\ request[r].kind = "transfer" /\ request[r].pc = "take"
  BY Runners, Steps DEF DeleteDevice, TakeRecord, Runs, Removing, Transferring
<1>2. PICK i \in Id : i = request[r].id
  BY <1>1
<1>3. device' = [device EXCEPT ![i] = NoDevice] /\ UNCHANGED <<known, link, created, spoilt>> /\ Grows
  BY <1>2, SameSpoilt DEF DeleteDevice, TakeRecord
<1>4. device'[i] = NoDevice /\ \A x \in Id \ {i} : device'[x] = device[x]
  BY <1>3 DEF TypesOK
<1>5. PICK state \in RequestType :
        /\ Advances(r, state)
        /\ \/ state = Idle /\ (TakeRecord(r) => ~Exists(i))
           \/ TakeRecord(r) /\ state.pc = "put" /\ state.id = i /\ request[r].kind = "transfer"
  <2>1. CASE DeleteDevice(r)
    <3>1. Becomes(r, Idle)
      BY <2>1, GotoBecomes DEF DeleteDevice
    <3>2. Advances(r, Idle)
      BY <1>1, <1>3, <3>1, IdleType DEF Advances
    <3>3. ~TakeRecord(r)
      BY <2>1 DEF DeleteDevice, TakeRecord
    <3> QED
      BY <3>2, <3>3, IdleType
  <2>2. CASE TakeRecord(r) /\ ~Exists(i)
    <3>1. Becomes(r, Idle)
      BY <1>2, <2>2, GotoBecomes DEF TakeRecord
    <3>2. Advances(r, Idle)
      BY <1>1, <1>3, <3>1, IdleType DEF Advances
    <3> QED
      BY <2>2, <3>2, IdleType
  <2>3. CASE TakeRecord(r) /\ Exists(i)
    <3> DEFINE state == [request[r] EXCEPT !.pc = "put"]
    <3>1. request[r] \in Transferring /\ request[r].kind = "transfer"
      BY <2>3, Runners, Steps DEF TakeRecord, Transferring
    <3>2. Becomes(r, state) /\ state \in RequestType
      BY <1>2, <2>3, <3>1, GotoBecomes DEF TakeRecord, Transferring, RequestType
    <3>3. state.kind = request[r].kind /\ state.mac = request[r].mac /\ state.id = i /\ state.pc = "put"
      BY <1>2, <3>1 DEF Transferring
    <3> HIDE DEF state
    <3>4. Advances(r, state)
      BY <1>1, <1>2, <1>3, <3>2, <3>3 DEF Advances
    <3> QED
      BY <2>3, <3>1, <3>2, <3>3, <3>4
  <2> QED
    BY <2>1, <2>2, <2>3
<1>6. request'[r] = state /\ \A q \in Request \ {r} : request'[q] = request[q]
  BY <1>5, AdvanceFacts
<1>7. state.pc \in {"idle", "put"}
  BY <1>5 DEF Idle
<1>8. ASSUME NEW c \in created, Here(c[1])
      PROVE  Here(c[1])' \/ (request[r].pc = "delete" /\ state = Idle /\ c[1] = request[r].id)
  <2>1. c[1] \in Id
    BY DEF TypesOK
  <2>2. \A q \in Request : Puts(q) => Puts(q)' /\ request'[q] = request[q]
    BY <1>1, <1>6 DEF Puts
  <2>3. CASE \E q \in Request : Puts(q) /\ request[q].id = c[1]
    BY <2>2, <2>3 DEF Here
  <2>4. CASE Exists(c[1]) /\ c[1] # i
    BY <1>4, <2>1, <2>4 DEF Here, Exists
  <2>5. CASE Exists(c[1]) /\ c[1] = i
    <3>1. CASE TakeRecord(r)
      BY <1>5, <1>6, <2>5, <3>1 DEF Here, Puts
    <3>2. CASE ~TakeRecord(r)
      BY <1>1, <1>2, <1>5, <2>5, <3>2
    <3> QED
      BY <3>1, <3>2
  <2> QED
    BY <1>8, <2>3, <2>4, <2>5 DEF Here
<1>9. LinksInv'
  BY <1>3, <1>5, <1>7, <1>8, LinksAdvance
<1>10. KnownInv'
  <2>1. \A x \in Id : Exists(x)' => Exists(x) /\ device'[x].mac = device[x].mac
    BY <1>4 DEF Exists
  <2>2. ASSUME NEW x \in Id, Exists(x), ~Exists(x)'
        PROVE  x = request[r].id /\ request[r].kind \in {"remove", "transfer"}
               /\ (request[r].kind = "remove" => state = Idle)
    <3>1. x = i
      BY <1>4, <2>2 DEF Exists
    <3> QED
      BY <1>1, <1>2, <1>5, <3>1
  <2>3. device'[request[r].id] = NoDevice
    BY <1>2, <1>4
  <2> QED
    BY <1>1, <1>3, <1>5, <2>1, <2>2, <2>3, KnownAdvance
<1> QED
  BY <1>9, <1>10

LEMMA PutKeeps ==
    ASSUME IInv, LinksInv, KnownInv, IInv', NEW r \in Request, PutRecord(r)
    PROVE  LinksInv' /\ KnownInv'
<1> USE DEF IInv
<1>1. /\ Runs(r) /\ request[r].pc = "put" /\ request[r].kind = "transfer" /\ request[r].mac \in Mac
      /\ request[r].record \in Record /\ request[r].record.mac = request[r].mac
  BY Runners, Steps DEF PutRecord, Runs, Transferring, MacIsFixed
<1>2. PICK i \in Id : i = request[r].id
  BY Runners, Steps DEF PutRecord, Transferring
<1>3. PICK record \in Record : record = request[r].record
  BY <1>1
<1>4. record # NoDevice /\ record.mac = request[r].mac
  BY <1>1, <1>3, NoRecord
<1>5. /\ device' = [device EXCEPT ![i] = record]
      /\ UNCHANGED <<known, link, created, spoilt>> /\ Grows /\ Becomes(r, Idle)
  BY <1>2, <1>3, SameSpoilt, GotoBecomes DEF PutRecord
<1>6. device'[i] = record /\ \A x \in Id \ {i} : device'[x] = device[x]
  BY <1>5 DEF TypesOK
<1>7. Advances(r, Idle) /\ Idle.pc = "idle"
  BY <1>1, <1>5, IdleType DEF Advances, Idle
<1>8. \A q \in Request \ {r} : request'[q] = request[q]
  BY <1>7, AdvanceFacts
<1>9. ASSUME NEW c \in created, Here(c[1]) PROVE Here(c[1])'
  <2>1. c[1] \in Id
    BY DEF TypesOK
  <2>2. CASE c[1] = i
    BY <1>4, <1>6, <2>2 DEF Here, Exists
  <2>3. CASE c[1] # i
    <3>1. Exists(c[1]) => Exists(c[1])'
      BY <1>6, <2>1, <2>3 DEF Exists
    <3>2. \A q \in Request : Puts(q) /\ request[q].id = c[1] => Puts(q)' /\ request'[q] = request[q]
      BY <1>2, <1>8, <2>3 DEF Puts
    <3> QED
      BY <1>9, <3>1, <3>2 DEF Here
  <2> QED
    BY <2>2, <2>3
<1>10. LinksInv'
  BY <1>5, <1>7, <1>9, LinksAdvance
<1>11. KnownInv'
  <2>1. spoilt'[request[r].mac] # {} \/ request[r].mac \in known'
    BY <1>1, <1>5 DEF KnownInv, TransfersKnown
  <2>2. \A x \in Id : Exists(x)' => \/ Exists(x) /\ device'[x].mac = device[x].mac
                                    \/ device'[x].mac \in known'
                                    \/ spoilt'[device'[x].mac] # {}
    BY <1>4, <1>6, <2>1 DEF Exists
  <2>3. \A x \in Id : Exists(x) => Exists(x)'
    BY <1>4, <1>6 DEF Exists
  <2> QED
    BY <1>1, <1>5, <1>7, <2>2, <2>3, KnownAdvance
<1> QED
  BY <1>10, <1>11

LEMMA NextKeeps == IInv /\ LinksInv /\ KnownInv /\ [Next]_vars => LinksInv' /\ KnownInv'
<1> SUFFICES ASSUME IInv, LinksInv, KnownInv, [Next]_vars PROVE LinksInv' /\ KnownInv'
  OBVIOUS
<1>0. IInv'
  BY NextInv
<1>1. ASSUME UNCHANGED <<device, request, link, created>>, known \subseteq known', Grows
      PROVE  LinksInv' /\ KnownInv'
  <2>1. \A r \in Request : Runs(r) => request[r].mac \in Mac
    BY Runners DEF IInv
  <2>2. \A m \in Mac : (spoilt'[m] = {} => spoilt[m] = {}) /\ (Clean(m)' => Clean(m))
    BY <1>1 DEF Grows, Clean
  <2>3. \A i \in Id : Exists(i) => device[i].mac \in Mac
    BY DEF IInv, TypesOK, Record, Exists
  <2>4. \A c \in created : c[2] \in Mac
    BY DEF IInv, TypesOK
  <2>5. RemovesAlone'
    BY <1>1, <2>1 DEF LinksInv, RemovesAlone, Runs, Grows
  <2>6. HasId' /\ NamedIsHere' /\ Unlinked' /\ LinkedIsHere'
    BY <1>1, <2>2, <2>4 DEF LinksInv, HasId, NamedIsHere, Unlinked, LinkedIsHere, Runs, Names, Here, Puts, Exists
  <2>7. RemovesARecord' /\ TransfersKnown'
    BY <1>1, <2>1, <2>2 DEF KnownInv, RemovesARecord, TransfersKnown, Runs, Exists
  <2>8. KnownSoon'
    BY <1>1, <2>2, <2>3 DEF KnownInv, KnownSoon, Exists
  <2> QED
    BY <2>5, <2>6, <2>7, <2>8 DEF LinksInv, KnownInv
<1>2. ASSUME NEW mac \in Mac, ScanQrCode(mac) \/ PairInitExpires(mac) \/ LockExpires(mac)
      PROVE  LinksInv' /\ KnownInv'
  <2>1. CASE LockExpires(mac)
    <3>1. Grows
      BY <2>1, SpoilGrows DEF LockExpires, IInv
    <3> QED
      BY <1>1, <2>1, <3>1 DEF LockExpires
  <2>2. CASE ScanQrCode(mac) \/ PairInitExpires(mac)
    <3>1. Grows
      BY <2>2, SameSpoilt DEF ScanQrCode, PairInitExpires, IInv
    <3> QED
      BY <1>1, <2>2, <3>1 DEF ScanQrCode, PairInitExpires
  <2> QED
    BY <1>2, <2>1, <2>2
<1>3. ASSUME NEW r \in Request, NEW mac \in Mac, NEW sim \in Sim \cup {NoSim}, AcquireLock(r, mac, sim)
      PROVE  LinksInv' /\ KnownInv'
  <2> DEFINE state == [kind |-> "pair", pc |-> "read", mac |-> mac, sim |-> sim, id |-> "new"]
  <2>1. state \in Pairing /\ state.pc = "read" /\ state.kind = "pair" /\ Start(r, state)
    BY <1>3 DEF Pairing, AcquireLock
  <2> HIDE DEF state
  <2>2. LinkStart(r, state)
    BY <1>3, <2>1 DEF AcquireLock, LinkStart
  <2> QED
    BY <2>2, StartKeeps
<1>4. ASSUME NEW r \in Request, NEW id \in Id, NEW sim \in Sim \cup {NoSim}, SetConnectionMethod(r, id, sim)
      PROVE  LinksInv' /\ KnownInv'
  <2> DEFINE state == [kind |-> "connect", pc |-> IF sim = NoSim THEN "unlink" ELSE "getLte",
                       mac |-> device[id].mac, id |-> id, sim |-> sim]
  <2>1. device[id].mac \in Mac
    BY <1>4 DEF IInv, TypesOK, Record, SetConnectionMethod, Exists
  <2>2. /\ state \in Connecting /\ state.kind = "connect" /\ state.pc \in {"unlink", "getLte"}
        /\ state.id = id /\ state.mac = device[id].mac /\ Start(r, state)
    BY <1>4, <2>1 DEF Connecting, SetConnectionMethod
  <2> HIDE DEF state
  <2>3. LinkStart(r, state)
    BY <1>4, <2>2 DEF SetConnectionMethod, LinkStart
  <2> QED
    BY <2>3, StartKeeps
<1>5. ASSUME NEW r \in Request, NEW id \in Id, RemoveDevice(r, id)
      PROVE  LinksInv' /\ KnownInv'
  <2> DEFINE state == [kind |-> "remove", pc |-> "unlink", mac |-> device[id].mac, id |-> id]
  <2>1. device[id].mac \in Mac
    BY <1>5 DEF IInv, TypesOK, Record, RemoveDevice, Exists
  <2>2. /\ state \in Removing /\ state.kind = "remove" /\ state.pc = "unlink"
        /\ state.id = id /\ state.mac = device[id].mac /\ Start(r, state)
    BY <1>5, <2>1 DEF Removing, RemoveDevice
  <2> HIDE DEF state
  <2>3. LinkStart(r, state)
    BY <1>5, <2>2 DEF RemoveDevice, LinkStart
  <2> QED
    BY <2>3, StartKeeps
<1>6. ASSUME NEW r \in Request, NEW id \in Id, TransferDevice(r, id)
      PROVE  LinksInv' /\ KnownInv'
  <2> DEFINE state == [kind |-> "transfer", pc |-> "take", mac |-> device[id].mac, id |-> id,
                       record |-> device[id]]
  <2>1. device[id] \in Record /\ device[id].mac \in Mac
    BY <1>6 DEF IInv, TypesOK, Record, TransferDevice, Exists
  <2>2. /\ state \in Transferring /\ state.kind = "transfer" /\ state.pc = "take"
        /\ state.id = id /\ state.mac = device[id].mac /\ Start(r, state)
    BY <1>6, <2>1 DEF Transferring, TransferDevice
  <2> HIDE DEF state
  <2>3. LinkStart(r, state)
    BY <1>6, <2>2 DEF TransferDevice, LinkStart
  <2> QED
    BY <2>3, StartKeeps
<1>7. CASE UNCHANGED vars
  BY <1>1, <1>7, SameSpoilt DEF vars, IInv
<1> QED
  BY <1>0, <1>2, <1>3, <1>4, <1>5, <1>6, <1>7, PlainStep, CreateKeeps, DropKeeps, PutKeeps DEF Next

LEMMA InitKeeps == Init => LinksInv /\ KnownInv
<1> SUFFICES ASSUME Init PROVE LinksInv /\ KnownInv
  OBVIOUS
<1>1. \A r \in Request : request[r] = Idle /\ ~Runs(r) /\ ~Puts(r) /\ request[r].pc = "idle"
  BY DEF Init, Idle, Runs, Puts
<1>2. link = {} /\ known = {device[id].mac : id \in {i \in Id : Exists(i)}}
  BY DEF Init
<1>3. LinksInv
  BY <1>1, <1>2 DEF LinksInv, HasId, RemovesAlone, NamedIsHere, Unlinked, LinkedIsHere, Names
<1>4. KnownInv
  BY <1>1, <1>2 DEF KnownInv, RemovesARecord, TransfersKnown, KnownSoon
<1> QED
  BY <1>3, <1>4

-----------------------------------------------------------------------------
(* The theorems.                                                           *)

LEMMA Invariant == Spec => []IInv
  BY InitInv, NextInv, PTL DEF Spec

LEMMA BothInvariants == Spec => [](LinksInv /\ KnownInv)
<1>1. Init => LinksInv /\ KnownInv
  BY InitKeeps
<1>2. IInv /\ (LinksInv /\ KnownInv) /\ [Next]_vars => (LinksInv /\ KnownInv)'
  BY NextKeeps
<1> QED
  BY <1>1, <1>2, Invariant, PTL DEF Spec

(* The stores and the requests in flight keep their types, and an id has   *)
(* one MAC address for good.                                               *)
THEOREM TypeCorrect == Spec => [](TypesOK /\ MacIsFixed)
  BY Invariant, PTL DEF IInv

(* 'Device already paired.' and 'Device pairing in process.' hold of all   *)
(* overlapping pairings, removals and transfers of a MAC address: it has   *)
(* at most one record, unless the lock of pairDevice expired in use or a   *)
(* request ran between the two steps of a transfer.                        *)
THEOREM OneRecordInvariant == Spec => []OneRecordPerMac
  BY Invariant, PTL DEF IInv

(* Neither pairDevice, transferDevice nor a late answer brings a removed   *)
(* device back, and none is lost but by a transfer that fails half-way.    *)
THEOREM KeptInvariant == Spec => []KeptUntilRemoved
<1>1. IInv => KeptUntilRemoved
  <2> SUFFICES ASSUME IInv, Quiet, NEW c \in created
               PROVE  /\ Exists(c[1]) => c[1] \notin removed
                      /\ Exists(c[1]) \/ c[1] \in removed \/ "failure" \in spoilt[c[2]]
    BY DEF KeptUntilRemoved
  <2>1. c[1] \in Id
    BY DEF IInv, TypesOK
  <2>2. \A r \in Request : ~Puts(r)
    BY DEF Quiet, Puts
  <2> QED
    BY <2>1, <2>2 DEF IInv, NothingReturns, Kept
<1> QED
  BY <1>1, Invariant, PTL

(* A device that is recorded is known to the internal device service when  *)
(* no request runs: whatever pairings, removals, connections and transfers *)
(* overlapped before, but for those that PairedIsKnown names.              *)
THEOREM KnownInvariant == Spec => []PairedIsKnown
<1>1. IInv /\ KnownInv => PairedIsKnown
  <2> SUFFICES ASSUME KnownInv, Quiet, NEW id \in Id, Exists(id), spoilt[device[id].mac] = {}
               PROVE  device[id].mac \in known
    BY DEF PairedIsKnown
  <2> QED
    BY DEF KnownInv, KnownSoon, Quiet
<1> QED
  BY <1>1, Invariant, BothInvariants, PTL

(* No SIM stays linked with a device that is gone, unless a call failed or *)
(* the device was removed while another request for it ran.                *)
THEOREM LinksInvariant == Spec => []LinksHaveDevice
<1>1. IInv /\ LinksInv => LinksHaveDevice
  <2> SUFFICES ASSUME LinksInv, Quiet, NEW row \in link, NEW c \in created, row[1] = c[1], Clean(c[2])
               PROVE  Exists(c[1])
    BY DEF LinksHaveDevice, Clean
  <2> QED
    BY DEF LinksInv, LinkedIsHere, Here, Quiet, Puts
<1> QED
  BY <1>1, Invariant, BothInvariants, PTL

=============================================================================
