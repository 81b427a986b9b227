--------------------------- MODULE DispatchersProofs ---------------------------
(***************************************************************************)
(* Theorems about the dispatchers, for every set of tasks, changing fields *)
(* and buffers and every size of the counter: a frame is wrong only about  *)
(* what changed while it was read, the status mask explains its inputs,    *)
(* and the gap between two heartbeats tells how many are lost.             *)
(***************************************************************************)
EXTENDS Dispatchers, TLAPS

(* The names of the inputs.                                                *)
LEMMA PinNames ==
  Pins = {"bmsOk", "imd_signal", "service_disconnects", "contactor_power",
          "precharge_99", "precharge_oor", "battery_undervoltage", "battery_overvoltage"}
BY DEF Pins, Seen!Pins

(* The raw mask bit by bit, for any levels of the inputs.                  *)
LEMMA RawBits ==
  ASSUME NEW s
  PROVE  \A b : b \in RawMask(s) <=>
           \/ b = 0  /\ s["imd_signal"]
           \/ b = 2  /\ ~s["battery_undervoltage"]
           \/ b = 3  /\ ~s["battery_overvoltage"]
           \/ b = 4  /\ s["service_disconnects"]
           \/ b = 12 /\ s["precharge_oor"]
           \/ b = 13 /\ s["precharge_99"]
           \/ b = 14 /\ ~s["contactor_power"]
           \/ b \in 7 .. 11 /\ ~s["bmsOk"]
BY DEF RawMask, STATUS_ERROR_INSULATION_FAULT, STATUS_ERROR_STACK_UNDERVOLTAGE,
       STATUS_ERROR_STACK_OVERVOLTAGE, STATUS_ERROR_SERVICE_DISCONNECTS,
       STATUS_INFO_PRECHARGE_OUTOFRANGE, STATUS_INFO_PRECHARGE_99,
       STATUS_INFO_AIR_POWER_AVAILABLE, STATUS_BMS_CELL,
       Seen!imd_status, Seen!undervoltage_status, Seen!overvoltage_status,
       Seen!disconnects_status, Seen!precharge_oor_status, Seen!precharge_99_status,
       Seen!contactor_power_status, Seen!bms_status

(* The AMS error, bit 1, is the union of the errors it stands for, and     *)
(* none of the other bits.                                                 *)
LEMMA MaskBits ==
  ASSUME NEW s
  PROVE  /\ \A b : b # 1 => (b \in generate_status_mask(s) <=> b \in RawMask(s))
         /\ 1 \in generate_status_mask(s)
              <=> \/ ~s["battery_undervoltage"] \/ ~s["battery_overvoltage"]
                  \/ s["service_disconnects"] \/ ~s["bmsOk"]
<1>1. \A b : b \in AmsErrors <=> b \in 2 .. 5 \/ b \in 7 .. 11
  BY DEF AmsErrors, STATUS_BMS_CELL
<1>2. 1 \notin RawMask(s)
  BY RawBits
<1>3. RawMask(s) \cap AmsErrors # {}
        <=> \/ ~s["battery_undervoltage"] \/ ~s["battery_overvoltage"]
            \/ s["service_disconnects"] \/ ~s["bmsOk"]
  <2>1. ASSUME NEW b \in RawMask(s), b \in AmsErrors
        PROVE  \/ ~s["battery_undervoltage"] \/ ~s["battery_overvoltage"]
               \/ s["service_disconnects"] \/ ~s["bmsOk"]
    BY <1>1, <2>1, RawBits
  <2>2. /\ ~s["battery_undervoltage"] => 2 \in RawMask(s)
        /\ ~s["battery_overvoltage"] => 3 \in RawMask(s)
        /\ s["service_disconnects"] => 4 \in RawMask(s)
        /\ ~s["bmsOk"] => 7 \in RawMask(s)
    BY RawBits
  <2>3. 2 \in AmsErrors /\ 3 \in AmsErrors /\ 4 \in AmsErrors /\ 7 \in AmsErrors
    BY <1>1
  <2> QED BY <2>1, <2>2, <2>3
<1> QED BY <1>2, <1>3 DEF generate_status_mask, STATUS_ERROR_AMS

(* What a frame with that mask says about an input is its level.           *)
LEMMA MaskSays ==
  ASSUME NEW s, \A f \in Pins : s[f] \in BOOLEAN,
         NEW frame, frame.status_mask = generate_status_mask(s), NEW f \in Pins
  PROVE  Says(frame, f) = s[f]
<1>1. f # "state" /\ f \notin Info
  BY PinNames DEF Info
<1>2. Says(frame, f) = ((Bit[f] \in generate_status_mask(s)) = (f \in BitWhenHigh))
  BY <1>1 DEF Says
<1>3. /\ Bit["imd_signal"] = 0 /\ Bit["battery_undervoltage"] = 2
      /\ Bit["battery_overvoltage"] = 3 /\ Bit["service_disconnects"] = 4
      /\ Bit["precharge_oor"] = 12 /\ Bit["precharge_99"] = 13
      /\ Bit["contactor_power"] = 14 /\ Bit["bmsOk"] = 7
  BY DEF Bit
<1>4. Bit[f] # 1
  BY <1>3, PinNames
<1>5. Bit[f] \in generate_status_mask(s) <=> Bit[f] \in RawMask(s)
  BY <1>4, MaskBits
<1>6. Bit[f] \in RawMask(s) <=> (IF f \in BitWhenHigh THEN s[f] ELSE ~s[f])
  BY <1>3, RawBits, PinNames DEF BitWhenHigh
<1>7. s[f] \in BOOLEAN
  OBVIOUS
<1> QED BY <1>2, <1>5, <1>6, <1>7

(* The mask tells each input from its own bit, and the AMS error light is  *)
(* a union of the error kinds (StatusDispatcher::generate_status_mask),    *)
(* for all combinations of the inputs.                                     *)
THEOREM MaskIsExplained == Spec => []MaskExplainsInputs
<1>1. ASSUME NEW levels \in [Pins -> BOOLEAN], NEW mask, mask = generate_status_mask(levels)
      PROVE  /\ \A f \in Pins : Says([status_mask |-> mask], f) = levels[f]
             /\ STATUS_ERROR_AMS \in mask
                  <=> \/ \E f \in {"battery_undervoltage", "battery_overvoltage", "bmsOk"} :
                           ~levels[f]
                      \/ levels["service_disconnects"]
  <2>1. \A f \in Pins : levels[f] \in BOOLEAN
    OBVIOUS
  <2>2. [status_mask |-> mask].status_mask = generate_status_mask(levels)
    BY <1>1
  <2>3. \A f \in Pins : Says([status_mask |-> mask], f) = levels[f]
    BY <2>1, <2>2, MaskSays
  <2>4. STATUS_ERROR_AMS \in mask
          <=> \/ ~levels["battery_undervoltage"] \/ ~levels["battery_overvoltage"]
              \/ levels["service_disconnects"] \/ ~levels["bmsOk"]
    BY <1>1, MaskBits DEF STATUS_ERROR_AMS
  <2> QED BY <2>3, <2>4
<1>2. MaskExplainsInputs
  BY <1>1 DEF MaskExplainsInputs
<1> QED BY <1>2, PTL
--------------------------------------------------------------------------------
(* What a task has read is what it will report, and is right unless it has *)
(* changed since: the inductive invariant of the reads.                    *)

Fields == Pins \cup Info \cup {"state"}

FirstReads(n) == {StatusReads[k] : k \in 1 .. n}

(* The functions have their domains, and the inputs are levels.            *)
WorldInv ==
  /\ tasks \subseteq Tasks
  /\ world = [f \in Fields |-> world[f]]
  /\ \A f \in Pins : world[f] \in BOOLEAN
  /\ read = [t \in Tasks |-> read[t]] /\ changed = [t \in Tasks |-> changed[t]]

ReadRight(t) ==
  \A f \in DOMAIN read[t] :
    /\ f \in Reported(t)
    /\ f \in Pins => read[t][f] \in BOOLEAN
    /\ read[t][f] # world[f] => f \in changed[t]

(* StatusDispatcher reads in the order of its source.                      *)
ReadInOrder == \E n \in 0 .. 9 : DOMAIN read["status"] = FirstReads(n)

ReadInv == WorldInv /\ (\A t \in tasks : ReadRight(t)) /\ ReadInOrder

(* The fields of the status frame in the order in which they are read.     *)
LEMMA ReadOrder ==
  /\ Len(StatusReads) = 9
  /\ FirstReads(0) = {} /\ FirstReads(9) = Pins \cup {"state"}
  /\ \A i \in 1 .. 9 : /\ StatusReads[i] \in Pins \cup {"state"}
                       /\ FirstReads(i) = FirstReads(i - 1) \cup {StatusReads[i]}
<1>1. Len(StatusReads) = 9 /\ FirstReads(0) = {}
  BY DEF StatusReads, FirstReads
<1>2. /\ StatusReads[1] = "imd_signal" /\ StatusReads[2] = "battery_undervoltage"
      /\ StatusReads[3] = "battery_overvoltage" /\ StatusReads[4] = "service_disconnects"
      /\ StatusReads[5] = "precharge_oor" /\ StatusReads[6] = "precharge_99"
      /\ StatusReads[7] = "contactor_power" /\ StatusReads[8] = "bmsOk"
      /\ StatusReads[9] = "state"
  BY DEF StatusReads
<1>3. \A i \in 1 .. 9 : StatusReads[i] \in Pins \cup {"state"}
  BY <1>2, PinNames
<1>4. 1 .. 9 = {1, 2, 3, 4, 5, 6, 7, 8, 9}
  OBVIOUS
<1>5. FirstReads(9) = Pins \cup {"state"}
  BY <1>2, <1>4, PinNames DEF FirstReads
<1>6. ASSUME NEW i \in 1 .. 9 PROVE FirstReads(i) = FirstReads(i - 1) \cup {StatusReads[i]}
  <2>1. 1 .. i = (1 .. i - 1) \cup {i}
    OBVIOUS
  <2> QED BY <2>1 DEF FirstReads
<1> QED BY <1>1, <1>3, <1>5, <1>6

(* A cycle with nothing left to read has read all it reports.              *)
LEMMA AllRead ==
  ASSUME ReadInv, NEW t \in tasks, ToRead(t) = {}
  PROVE  DOMAIN read[t] = Reported(t)
<1>1. DOMAIN read[t] \subseteq Reported(t) /\ t \in Tasks
  BY DEF ReadInv, ReadRight, WorldInv
<1>2. CASE t = "status"
  <2>1. PICK n \in 0 .. 9 : DOMAIN read["status"] = FirstReads(n)
    BY DEF ReadInv, ReadInOrder
  <2>2. ASSUME n < 9 PROVE FALSE
    <3>1. n + 1 \in 1 .. Len(StatusReads) /\ (n + 1) - 1 = n
      BY <2>2, ReadOrder
    <3>2. {StatusReads[k] : k \in 1 .. (n + 1) - 1} = DOMAIN read[t]
      BY <1>2, <2>1, <3>1 DEF FirstReads
    <3>3. StatusReads[n + 1] \in ToRead(t)
      BY <1>2, <3>1, <3>2 DEF ToRead
    <3> QED BY <3>3
  <2> QED BY <1>2, <2>1, <2>2, ReadOrder DEF Reported
<1>3. CASE t = "contactors"
  BY <1>1, <1>3 DEF ToRead, Reported
<1>4. CASE t = "heartbeat"
  BY <1>1, <1>4 DEF Reported
<1> QED BY <1>1, <1>2, <1>3, <1>4 DEF Tasks

(* What is right is reported: the invariant gives the property.            *)
LEMMA FrameRight ==
  ASSUME ReadInv
  PROVE  WrongOnlyAboutChanges
<1> SUFFICES ASSUME NEW t \in tasks, ToRead(t) = {}, NEW f \in Reported(t),
                    Says(Frame(t), f) # world[f]
             PROVE  f \in changed[t]
  BY DEF WrongOnlyAboutChanges
<1>1. f \in DOMAIN read[t] /\ DOMAIN read[t] = Reported(t) /\ t \in Tasks
  BY AllRead DEF ReadInv, WorldInv
<1>2. read[t][f] # world[f] => f \in changed[t]
  BY <1>1 DEF ReadInv, ReadRight
<1>3. CASE t = "status"
  <2>1. /\ Frame(t).status_mask = generate_status_mask(read[t])
        /\ Frame(t).current_state = read[t]["state"]
    BY <1>3 DEF Frame
  <2>2. CASE f = "state"
    <3>1. f \notin Info /\ f \notin Pins
      BY <2>2, PinNames DEF Info
    <3> QED BY <1>2, <2>1, <2>2, <3>1 DEF Says
  <2>3. CASE f # "state"
    <3>1. f \in Pins /\ \A g \in Pins : g \in DOMAIN read[t]
      BY <1>1, <1>3, <2>3 DEF Reported
    <3>2. \A g \in Pins : read[t][g] \in BOOLEAN
      BY <3>1 DEF ReadInv, ReadRight
    <3>3. Says(Frame(t), f) = read[t][f]
      BY <2>1, <3>1, <3>2, MaskSays
    <3> QED BY <1>2, <3>3
  <2> QED BY <2>2, <2>3
<1>4. CASE t = "contactors"
  <2>1. Frame(t).info = read[t] /\ f \in Info /\ f # "state"
    BY <1>4 DEF Frame, Reported, Info
  <2>2. f \notin Pins
    BY <2>1, PinNames DEF Info
  <2> QED BY <1>2, <2>1, <2>2 DEF Says
<1>5. CASE t = "heartbeat"
  BY <1>5 DEF Reported
<1> QED BY <1>1, <1>3, <1>4, <1>5 DEF Tasks

(* Nothing has been read at the start.                                     *)
LEMMA InitReadInv == Init => ReadInv
<1> SUFFICES ASSUME Init PROVE ReadInv
  OBVIOUS
<1>1. tasks \subseteq Tasks
  BY CreatedAssumption DEF Init
<1>2. "state" \notin Pins
  BY PinNames
<1>3. \A t \in Tasks : read[t] = << >> /\ DOMAIN read[t] = {}
  BY DEF Init, Nothing
<1>4. ReadInOrder
  <2>1. DOMAIN read["status"] = {} /\ 0 \in 0 .. 9
    BY <1>3 DEF Tasks
  <2>2. FirstReads(0) = {}
    BY ReadOrder
  <2> QED BY <2>1, <2>2 DEF ReadInOrder
<1>5. WorldInv
  BY <1>1, <1>2 DEF Init, WorldInv, Fields
<1> QED BY <1>1, <1>3, <1>4, <1>5 DEF ReadInv, ReadRight

(* Reading the next field keeps what has been read right.                  *)
LEMMA SampleReadInv ==
  ASSUME ReadInv, NEW t \in tasks, Sample(t)
  PROVE  ReadInv'
<1>1. PICK f \in ToRead(t) :
        read' = [read EXCEPT ![t] = [g \in DOMAIN @ \cup {f} |-> IF g = f THEN world[f] ELSE @[g]]]
  BY DEF Sample
<1>2. UNCHANGED <<world, tasks, changed>> /\ t \in Tasks
  BY DEF Sample, ReadInv, WorldInv
<1>3. /\ DOMAIN read'[t] = DOMAIN read[t] \cup {f}
      /\ \A g \in DOMAIN read[t] : g # f => read'[t][g] = read[t][g]
      /\ read'[t][f] = world[f]
      /\ \A u \in Tasks : u # t => read'[u] = read[u]
      /\ read' = [u \in Tasks |-> read'[u]]
  <2>1. DOMAIN read = Tasks
    BY DEF ReadInv, WorldInv
  <2>2. read'[t] = [g \in DOMAIN read[t] \cup {f} |-> IF g = f THEN world[f] ELSE read[t][g]]
    BY <1>1, <1>2, <2>1
  <2>3. /\ \A u \in Tasks : u # t => read'[u] = read[u]
        /\ read' = [u \in Tasks |-> read'[u]]
    BY <1>1, <1>2, <2>1
  <2> QED BY <2>2, <2>3
<1>4. f \in Reported(t)
  <2>1. CASE t = "status"
    <3>1. PICK i \in 1 .. 9 : f = StatusReads[i]
      BY <2>1, ReadOrder DEF ToRead
    <3> QED BY <2>1, <3>1, ReadOrder DEF Reported
  <2> QED BY <1>2, <2>1 DEF ToRead, Reported, Tasks
<1>5. ReadRight(t)'
  <2>1. ASSUME NEW g \in DOMAIN read[t], f # g
        PROVE  /\ g \in Reported(t)
               /\ g \in Pins => read'[t][g] \in BOOLEAN
               /\ read'[t][g] # world'[g] => g \in changed'[t]
    <3>1. /\ g \in Reported(t)
          /\ g \in Pins => read[t][g] \in BOOLEAN
          /\ read[t][g] # world[g] => g \in changed[t]
      BY DEF ReadInv, ReadRight
    <3>2. read'[t][g] = read[t][g] /\ world' = world /\ changed' = changed
      BY <1>2, <1>3, <2>1
    <3> QED BY <3>1, <3>2
  <2>2. /\ f \in Pins => read'[t][f] \in BOOLEAN
        /\ read'[t][f] # world'[f] => f \in changed'[t]
    BY <1>2, <1>3 DEF ReadInv, ReadRight, WorldInv
  <2>3. ASSUME NEW g \in DOMAIN read'[t]
        PROVE  /\ g \in Reported(t)
               /\ g \in Pins => read'[t][g] \in BOOLEAN
               /\ read'[t][g] # world'[g] => g \in changed'[t]
    BY <1>3, <1>4, <2>1, <2>2
  <2> QED BY <2>3 DEF ReadRight, Reported, Pins, Seen!Pins
<1>6. \A u \in tasks : ReadRight(u)'
  BY <1>2, <1>3, <1>5 DEF ReadInv, ReadRight, WorldInv
<1>7. ReadInOrder'
  <2>1. CASE t = "status"
    <3>1. PICK i \in 1 .. 9 : /\ f = StatusReads[i]
                             /\ {StatusReads[k] : k \in 1 .. i - 1} = DOMAIN read[t]
      BY <2>1, ReadOrder DEF ToRead
    <3>2. DOMAIN read'[t] = FirstReads(i)
      BY <1>3, <3>1, ReadOrder DEF FirstReads
    <3> QED BY <2>1, <3>2 DEF ReadInOrder
  <2>2. CASE t # "status"
    BY <1>3, <2>2 DEF ReadInv, ReadInOrder, Tasks
  <2> QED BY <2>1, <2>2
<1> QED BY <1>2, <1>3, <1>6, <1>7 DEF ReadInv, WorldInv

(* The end of a cycle forgets what it has read.                            *)
LEMMA FinishReadInv ==
  ASSUME ReadInv, NEW t \in tasks, NEW write, Finish(t, write)
  PROVE  ReadInv'
<1>1. /\ read' = [read EXCEPT ![t] = << >>] /\ changed' = [changed EXCEPT ![t] = {}]
      /\ UNCHANGED <<world, tasks>> /\ t \in Tasks
  BY DEF Finish, Nothing, ReadInv, WorldInv
<1>2. /\ DOMAIN read'[t] = {} /\ \A u \in Tasks : u # t => read'[u] = read[u]
      /\ \A u \in Tasks : u # t => changed'[u] = changed[u]
      /\ read' = [u \in Tasks |-> read'[u]] /\ changed' = [u \in Tasks |-> changed'[u]]
  <2>1. DOMAIN read = Tasks /\ DOMAIN changed = Tasks
    BY DEF ReadInv, WorldInv
  <2>2. read'[t] = << >> /\ \A u \in Tasks : u # t => read'[u] = read[u]
    BY <1>1, <2>1
  <2>3. DOMAIN read'[t] = {}
    BY <2>2
  <2>4. /\ \A u \in Tasks : u # t => changed'[u] = changed[u]
        /\ changed' = [u \in Tasks |-> changed'[u]]
    BY <1>1, <2>1
  <2>5. read' = [u \in Tasks |-> read'[u]]
    BY <1>1, <2>1
  <2> QED BY <2>2, <2>3, <2>4, <2>5
<1>3. \A u \in tasks : ReadRight(u)'
  BY <1>1, <1>2 DEF ReadInv, ReadRight, WorldInv
<1>4. ReadInOrder'
  BY <1>2, ReadOrder DEF ReadInv, ReadInOrder, Tasks
<1> QED BY <1>1, <1>2, <1>3, <1>4 DEF ReadInv, WorldInv

(* What changes is remembered by every task that has begun to read.        *)
LEMMA WorldReadInv ==
  ASSUME ReadInv, WorldChanges
  PROVE  ReadInv'
<1>1. PICK f \in Changing \cap UNION {Reported(t) : t \in tasks} :
        /\ \E v \in IF f = "state" THEN States \cup {scsInitialising} ELSE BOOLEAN :
             v # world[f] /\ world' = [world EXCEPT ![f] = v]
        /\ changed' = [t \in Tasks |-> IF read[t] = Nothing THEN {} ELSE changed[t] \cup {f}]
  BY DEF WorldChanges
<1>2. UNCHANGED <<tasks, read>>
  BY DEF WorldChanges
<1>3. \A g \in Fields : g # f => world'[g] = world[g]
  BY <1>1 DEF ReadInv, WorldInv
<1>4. WorldInv'
  <2>1. "state" \notin Pins
    BY PinNames
  <2> QED BY <1>1, <1>2, <2>1 DEF ReadInv, WorldInv, Fields
<1>5. ASSUME NEW t \in tasks PROVE ReadRight(t)'
  <2>1. t \in Tasks /\ Reported(t) \subseteq Fields
    BY DEF ReadInv, WorldInv, Tasks, Reported, Fields
  <2>2. ASSUME NEW g \in DOMAIN read[t]
        PROVE  /\ g \in Reported(t)
               /\ g \in Pins => read[t][g] \in BOOLEAN
               /\ read[t][g] # world[g] => g \in changed[t]
    BY DEF ReadInv, ReadRight
  <2>3. ASSUME NEW g \in DOMAIN read[t] PROVE changed'[t] = changed[t] \cup {f}
    BY <1>1, <2>1 DEF Nothing
  <2>4. ASSUME NEW g \in DOMAIN read'[t]
        PROVE  /\ g \in Reported(t)
               /\ g \in Pins => read'[t][g] \in BOOLEAN
               /\ read'[t][g] # world'[g] => g \in changed'[t]
    BY <1>2, <1>3, <2>1, <2>2, <2>3
  <2> QED BY <2>4 DEF ReadRight, Reported, Pins, Seen!Pins
<1>6. ReadInOrder'
  BY <1>2 DEF ReadInv, ReadInOrder
<1> QED BY <1>2, <1>4, <1>5, <1>6 DEF ReadInv

(* Every step preserves the invariant of the reads.                        *)
LEMMA NextReadInv == ReadInv /\ [Next]_vars => ReadInv'
<1> SUFFICES ASSUME ReadInv, [Next]_vars PROVE ReadInv'
  OBVIOUS
<1>1. CASE \E t \in tasks : Sample(t)
  BY <1>1, SampleReadInv
<1>2. CASE \E t \in tasks : Send(t) \/ Unsent(t)
  BY <1>2, FinishReadInv DEF Send, Unsent
<1>3. CASE UNCHANGED <<tasks, world, read, changed>>
  BY <1>3 DEF ReadInv, WorldInv, ReadRight, ReadInOrder
<1>4. CASE \E b \in TxBuffers : Deliver(b)
  BY <1>3, <1>4 DEF Deliver, taskVars
<1>5. CASE WorldChanges
  BY <1>5, WorldReadInv
<1>6. CASE UNCHANGED vars
  BY <1>3, <1>6 DEF vars, taskVars
<1> QED BY <1>1, <1>2, <1>4, <1>5, <1>6 DEF Next

(* A frame about to be written is wrong only about what has changed while  *)
(* it was read: procedure() of StatusDispatcher and ContactorInfo-         *)
(* Dispatcher carry nothing over from an earlier cycle.                    *)
THEOREM OnlyChangesAreWrong == Spec => []WrongOnlyAboutChanges
<1>1. Spec => []ReadInv
  BY InitReadInv, NextReadInv, PTL DEF Spec
<1> QED BY <1>1, FrameRight, PTL
--------------------------------------------------------------------------------
(* The counter of the heartbeats.                                          *)

(* a and b differ by a multiple of n.                                      *)
Congruent(a, b, n) == \E q \in Int : a - b = n * q

(* The remainder of a division is that of a number below the divisor.      *)
LEMMA Division ==
  ASSUME NEW a \in Int, NEW n \in Nat \ {0}
  PROVE  a % n \in 0 .. n - 1 /\ Congruent(a, a % n, n)
<1>1. a % n \in 0 .. n - 1 /\ a \div n \in Int /\ a = (n * (a \div n)) + (a % n)
  OBVIOUS
<1>2. a - (a % n) = n * (a \div n)
  BY <1>1
<1> QED BY <1>1, <1>2 DEF Congruent

(* It is the only number below the divisor that is congruent.              *)
LEMMA Remainder ==
  ASSUME NEW n \in Nat \ {0}, NEW r \in 0 .. n - 1, NEW a \in Int, Congruent(a, r, n)
  PROVE  a % n = r
<1>1. PICK q \in Int : a = (n * q) + r
  <2>1. PICK q \in Int : a - r = n * q
    BY DEF Congruent
  <2>2. n * q \in Int
    BY <2>1
  <2> QED BY <2>1, <2>2
<1> QED BY <1>1

(* Congruence is an equivalence ...                                        *)
LEMMA CongruentChain ==
  ASSUME NEW n \in Nat \ {0}, NEW a \in Int, NEW b \in Int, NEW c \in Int
  PROVE  /\ Congruent(a, b, n) /\ Congruent(b, c, n) => Congruent(a, c, n)
         /\ Congruent(a, b, n) => Congruent(b, a, n)
         /\ Congruent(a, a, n)
<1>1. ASSUME Congruent(a, b, n), Congruent(b, c, n) PROVE Congruent(a, c, n)
  <2>1. PICK p \in Int : a - b = n * p
    BY <1>1 DEF Congruent
  <2>2. PICK q \in Int : b - c = n * q
    BY <1>1 DEF Congruent
  <2>3. a - c = n * (p + q) /\ p + q \in Int
    BY <2>1, <2>2
  <2> QED BY <2>3 DEF Congruent
<1>2. ASSUME Congruent(a, b, n) PROVE Congruent(b, a, n)
  <2>1. PICK p \in Int : a - b = n * p
    BY <1>2 DEF Congruent
  <2>2. b - a = n * (-p) /\ -p \in Int
    BY <2>1
  <2> QED BY <2>2 DEF Congruent
<1>3. Congruent(a, a, n)
  <2>1. a - a = n * 0 /\ 0 \in Int
    OBVIOUS
  <2> QED BY <2>1 DEF Congruent
<1> QED BY <1>1, <1>2, <1>3

(* ... that adding and subtracting respect.                                *)
LEMMA CongruentSums ==
  ASSUME NEW n \in Nat \ {0}, NEW a \in Int, NEW b \in Int, NEW c \in Int, NEW d \in Int,
         Congruent(a, b, n), Congruent(c, d, n)
  PROVE  Congruent(a + c, b + d, n) /\ Congruent(a - c, b - d, n)
<1>1. PICK p \in Int : a - b = n * p
  BY DEF Congruent
<1>2. PICK q \in Int : c - d = n * q
  BY DEF Congruent
<1>3. (a + c) - (b + d) = n * (p + q) /\ (a - c) - (b - d) = n * (p - q)
  BY <1>1, <1>2
<1>4. p + q \in Int /\ p - q \in Int
  OBVIOUS
<1> QED BY <1>3, <1>4 DEF Congruent

(* BeatCycle is a whole number of cycles of the counter.                   *)
LEMMA WholeCycles ==
  ASSUME NEW a \in Int, NEW b \in Int, Congruent(a, b, BeatCycle)
  PROVE  Congruent(a, b, CounterSize)
<1>1. CounterSize \in Nat \ {0} /\ BeatCycle \in Nat \ {0} /\ BeatCycle % CounterSize = 0
  BY CounterAssumption
<1>2. Congruent(BeatCycle, 0, CounterSize)
  <2>1. BeatCycle \in Int /\ Congruent(BeatCycle, BeatCycle % CounterSize, CounterSize)
    BY <1>1, Division
  <2> QED BY <1>1, <2>1
<1>3. PICK k \in Int : BeatCycle - 0 = CounterSize * k
  BY <1>2 DEF Congruent
<1>4. PICK q \in Int : a - b = BeatCycle * q
  BY DEF Congruent
<1>5. PICK N \in Nat \ {0} : N = CounterSize
  BY <1>1
<1>6. BeatCycle = N * k
  BY <1>1, <1>3, <1>5
<1>7. a - b = N * (k * q) /\ k * q \in Int
  BY <1>4, <1>6
<1> QED BY <1>5, <1>7 DEF Congruent

(* A frame carries the remainder of the beat it was made for.              *)
Counted(counter, beat) == beat \in 0 .. BeatCycle - 1 /\ counter = beat % CounterSize

CountInv ==
  /\ tx = [b \in TxBuffers |-> tx[b]] /\ DOMAIN heard = Tasks
  /\ Counted(heartbeat_counter, beats)
  /\ \A b \in TxBuffers :
       tx[b] # NULL /\ tx[b].id = "heartbeat" => Counted(tx[b].counter, tx[b].beat)
  /\ heard["heartbeat"] # NULL
       => Counted(heard["heartbeat"].counter, heard["heartbeat"].beat)

(* Counter and beat stay together when both go on by one, also when one or *)
(* both wrap around.                                                       *)
LEMMA CountOn ==
  ASSUME NEW c, NEW b, Counted(c, b)
  PROVE  /\ Counted((c + 1) % CounterSize, (b + 1) % BeatCycle)
         /\ Counted((c + 0) % CounterSize, (b + 0) % BeatCycle)
<1>1. PICK N, B : N = CounterSize /\ B = BeatCycle
  OBVIOUS
<1>2. N \in Nat \ {0} /\ B \in Nat \ {0} /\ b \in 0 .. B - 1 /\ b \in Int /\ c = b % N
  BY <1>1, CounterAssumption DEF Counted
<1>3. c \in 0 .. N - 1 /\ c \in Int /\ Congruent(b, c, N)
  BY <1>2, Division
<1>4. (c + 0) % N = c /\ (b + 0) % B = b
  <2>1. c + 0 = c /\ b + 0 = b /\ Congruent(c, c, N) /\ Congruent(b, b, B)
    BY <1>2, <1>3, CongruentChain
  <2> QED BY <1>2, <1>3, <2>1, Remainder
<1>5. PICK r : r = (c + 1) % N
  OBVIOUS
<1>6. c + 1 \in Int /\ b + 1 \in Int /\ 1 \in Int
  BY <1>2, <1>3
<1>7. r \in 0 .. N - 1 /\ r \in Int /\ Congruent(c + 1, r, N)
  BY <1>2, <1>5, <1>6, Division
<1>8. Congruent(b + 1, c + 1, N)
  <2>1. Congruent(1, 1, N)
    BY <1>2, <1>6, CongruentChain
  <2> QED BY <1>2, <1>3, <1>6, <2>1, CongruentSums
<1>9. Congruent(b + 1, r, N)
  BY <1>2, <1>6, <1>7, <1>8, CongruentChain
<1>10. (b + 1) % N = r
  BY <1>2, <1>6, <1>7, <1>9, Remainder
<1>11. CASE b + 1 < B
  <2>1. b + 1 \in 0 .. B - 1 /\ Congruent(b + 1, b + 1, B)
    BY <1>2, <1>6, <1>11, CongruentChain
  <2>2. (b + 1) % B = b + 1
    BY <1>2, <1>6, <2>1, Remainder
  <2> QED BY <1>1, <1>2, <1>4, <1>5, <1>10, <2>1, <2>2 DEF Counted
<1>12. CASE b + 1 = B
  <2>1. 0 \in Int /\ 0 \in 0 .. B - 1 /\ 0 \in 0 .. N - 1 /\ B \in Int
    BY <1>2
  <2>2. Congruent(0, 0, N)
    BY <1>2, <2>1, CongruentChain
  <2>3. 0 % N = 0
    BY <1>2, <2>1, <2>2, Remainder
  <2>4. r = 0
    BY <1>1, <1>10, <1>12, CounterAssumption
  <2>5. B - 0 = B * 1
    BY <1>2
  <2>6. Congruent(B, 0, B)
    BY <2>5 DEF Congruent
  <2>7. (b + 1) % B = 0
    BY <1>2, <1>12, <2>1, <2>6, Remainder
  <2> QED BY <1>1, <1>2, <1>4, <1>5, <2>1, <2>3, <2>4, <2>7 DEF Counted
<1> QED BY <1>2, <1>11, <1>12

(* The difference of two counters is that of their beats, when it is less  *)
(* than a cycle of the counter.                                            *)
LEMMA GapsAgree ==
  ASSUME NEW c1, NEW b1, Counted(c1, b1), NEW c2, NEW b2, Counted(c2, b2),
         (b2 - b1) % BeatCycle < CounterSize
  PROVE  (c2 - c1) % CounterSize = (b2 - b1) % BeatCycle
<1>1. PICK N, B, n : N = CounterSize /\ B = BeatCycle /\ n = (b2 - b1) % BeatCycle
  OBVIOUS
<1>2. /\ N \in Nat \ {0} /\ B \in Nat \ {0}
      /\ b1 \in Int /\ c1 = b1 % N /\ b2 \in Int /\ c2 = b2 % N
  BY <1>1, CounterAssumption DEF Counted
<1>3. /\ c1 \in 0 .. N - 1 /\ Congruent(b1, c1, N)
      /\ c2 \in 0 .. N - 1 /\ Congruent(b2, c2, N)
  BY <1>2, Division
<1>4. c1 \in Int /\ c2 \in Int /\ b2 - b1 \in Int /\ c2 - c1 \in Int
  BY <1>2, <1>3
<1>5. Congruent(b2 - b1, c2 - c1, N)
  BY <1>2, <1>3, <1>4, CongruentSums
<1>6. n \in 0 .. B - 1 /\ Congruent(b2 - b1, n, B)
  BY <1>1, <1>2, <1>4, Division
<1>7. n \in Int /\ n \in 0 .. N - 1
  BY <1>1, <1>2, <1>6
<1>8. Congruent(b2 - b1, n, N)
  BY <1>1, <1>4, <1>6, <1>7, WholeCycles
<1>9. Congruent(c2 - c1, n, N)
  <2>1. Congruent(c2 - c1, b2 - b1, N)
    BY <1>2, <1>4, <1>5, CongruentChain
  <2> QED BY <1>2, <1>4, <1>7, <1>8, <2>1, CongruentChain
<1>10. (c2 - c1) % N = n
  BY <1>2, <1>4, <1>7, <1>9, Remainder
<1> QED BY <1>1, <1>10

(* No heartbeat has been counted at the start.                             *)
LEMMA InitCountInv == Init => CountInv
<1> SUFFICES ASSUME Init PROVE CountInv
  OBVIOUS
<1>1. tx = [b \in TxBuffers |-> NULL] /\ heard = [t \in Tasks |-> NULL]
  BY DEF Init, TxInit
<1>2. Counted(heartbeat_counter, beats)
  <2>1. /\ heartbeat_counter = 0 /\ beats = 0 /\ CounterSize \in Nat \ {0}
        /\ BeatCycle \in Nat \ {0}
    BY CounterAssumption DEF Init
  <2>2. 0 \in Int /\ 0 \in 0 .. CounterSize - 1 /\ 0 \in 0 .. BeatCycle - 1
    BY <2>1
  <2>3. 0 % CounterSize = 0
    BY <2>1, <2>2, CongruentChain, Remainder
  <2> QED BY <2>1, <2>2, <2>3 DEF Counted
<1>3. "heartbeat" \in Tasks
  BY DEF Tasks
<1> QED BY <1>1, <1>2, <1>3 DEF CountInv

(* The end of a cycle sends the count of the moment, if at all, and counts *)
(* on after a heartbeat.                                                   *)
LEMMA FinishCountInv ==
  ASSUME CountInv, NEW t \in Tasks, Send(t) \/ Unsent(t)
  PROVE  CountInv'
<1>1. CountBeat(t) /\ heard' = heard
  BY DEF Send, Unsent, Finish
<1>2. Counted(heartbeat_counter, beats)
  BY DEF CountInv
<1>3. Counted(heartbeat_counter, beats)'
  <2>1. CASE t = "heartbeat"
    <3>1. /\ heartbeat_counter' = (heartbeat_counter + 1) % CounterSize
          /\ beats' = (beats + 1) % BeatCycle
      BY <1>1, <2>1 DEF CountBeat
    <3>2. Counted((heartbeat_counter + 1) % CounterSize, (beats + 1) % BeatCycle)
      BY <1>2, CountOn
    <3> QED BY <3>1, <3>2
  <2>2. CASE t # "heartbeat"
    <3>1. /\ heartbeat_counter' = (heartbeat_counter + 0) % CounterSize
          /\ beats' = (beats + 0) % BeatCycle
      BY <1>1, <2>2 DEF CountBeat
    <3>2. Counted((heartbeat_counter + 0) % CounterSize, (beats + 0) % BeatCycle)
      BY <1>2, CountOn
    <3> QED BY <3>1, <3>2
  <2> QED BY <2>1, <2>2
<1>4. /\ Frame(t).id = t
      /\ t = "heartbeat" => Frame(t).counter = heartbeat_counter /\ Frame(t).beat = beats
  BY DEF Frame, Tasks
<1>5. PICK f : f = Frame(t)
  OBVIOUS
<1>6. f.id = "heartbeat" => Counted(f.counter, f.beat)
  BY <1>2, <1>4, <1>5
<1>7. (\E b \in TxBuffers : tx' = [tx EXCEPT ![b] = f]) \/ UNCHANGED tx
  BY <1>5 DEF Send, Unsent, Finish, Accept, Refuse, EmptyBuffers
<1>8. /\ tx' = [b \in TxBuffers |-> tx'[b]]
      /\ \A b \in TxBuffers : tx'[b] \in {tx[b], f}
  BY <1>7 DEF CountInv
<1>9. \A b \in TxBuffers :
        tx'[b] # NULL /\ tx'[b].id = "heartbeat" => Counted(tx'[b].counter, tx'[b].beat)
  BY <1>6, <1>8 DEF CountInv
<1> QED BY <1>1, <1>3, <1>8, <1>9 DEF CountInv, Counted

(* What the listener hears is what a buffer held.                          *)
LEMMA DeliverCountInv ==
  ASSUME CountInv, NEW b \in TxBuffers, Deliver(b)
  PROVE  /\ CountInv'
         /\ heard'["heartbeat"] # heard["heartbeat"]
              => Counted(heard'["heartbeat"].counter, heard'["heartbeat"].beat)
<1>1. /\ tx[b] # NULL /\ tx' = [tx EXCEPT ![b] = NULL]
      /\ heard' = [heard EXCEPT ![tx[b].id] = tx[b]]
      /\ UNCHANGED <<heartbeat_counter, beats>>
  BY DEF Deliver, Transmit, taskVars
<1>2. /\ tx' = [c \in TxBuffers |-> tx'[c]] /\ DOMAIN heard' = Tasks
      /\ \A c \in TxBuffers : tx'[c] \in {tx[c], NULL}
  BY <1>1 DEF CountInv
<1>3. "heartbeat" \in DOMAIN heard
  BY DEF CountInv, Tasks
<1>4. heard'["heartbeat"] = IF tx[b].id = "heartbeat" THEN tx[b] ELSE heard["heartbeat"]
  BY <1>1, <1>3
<1>5. tx[b].id = "heartbeat" => Counted(tx[b].counter, tx[b].beat)
  BY <1>1 DEF CountInv
<1>6. \A c \in TxBuffers :
        tx'[c] # NULL /\ tx'[c].id = "heartbeat" => Counted(tx'[c].counter, tx'[c].beat)
  BY <1>2 DEF CountInv
<1>7. /\ heard'["heartbeat"] # NULL
           => Counted(heard'["heartbeat"].counter, heard'["heartbeat"].beat)
      /\ heard'["heartbeat"] # heard["heartbeat"]
           => Counted(heard'["heartbeat"].counter, heard'["heartbeat"].beat)
  BY <1>4, <1>5 DEF CountInv
<1>8. Counted(heartbeat_counter, beats)'
  BY <1>1 DEF CountInv, Counted
<1> QED BY <1>2, <1>6, <1>7, <1>8 DEF CountInv, Counted

(* The step of GapCountsLost.                                              *)
GapStep ==
  LET old == heard["heartbeat"]   new == heard'["heartbeat"]
      n   == (new.beat - old.beat) % BeatCycle
  IN  old # NULL /\ new # old /\ n < CounterSize => (new.counter - old.counter) % CounterSize = n

(* Every step preserves the invariant of the counters, and a heartbeat     *)
(* that is heard tells how many have been lost.                            *)
LEMMA NextCountInv ==
  ASSUME CountInv, tasks \subseteq Tasks, [Next]_vars
  PROVE  CountInv' /\ GapStep
<1>1. ASSUME heard' = heard PROVE GapStep
  BY <1>1 DEF GapStep
<1>2. ASSUME UNCHANGED <<tx, heard, heartbeat_counter, beats>> PROVE CountInv' /\ GapStep
  <2>1. CountInv'
    BY <1>2 DEF CountInv, Counted
  <2> QED BY <1>1, <1>2, <2>1
<1>3. CASE \E t \in tasks : Send(t) \/ Unsent(t)
  <2>1. PICK t \in Tasks : Send(t) \/ Unsent(t)
    BY <1>3
  <2>2. heard' = heard
    BY <2>1 DEF Send, Unsent, Finish
  <2> QED BY <1>1, <2>1, <2>2, FinishCountInv
<1>4. CASE \E b \in TxBuffers : Deliver(b)
  <2>1. PICK b \in TxBuffers : Deliver(b)
    BY <1>4
  <2>2. /\ CountInv'
        /\ heard'["heartbeat"] # heard["heartbeat"]
             => Counted(heard'["heartbeat"].counter, heard'["heartbeat"].beat)
    BY <2>1, DeliverCountInv
  <2>3. heard["heartbeat"] # NULL
          => Counted(heard["heartbeat"].counter, heard["heartbeat"].beat)
    BY DEF CountInv
  <2> QED BY <2>2, <2>3, GapsAgree DEF GapStep
<1>5. CASE \E t \in tasks : Sample(t)
  BY <1>2, <1>5 DEF Sample
<1>6. CASE WorldChanges
  BY <1>2, <1>6 DEF WorldChanges
<1>7. CASE UNCHANGED vars
  BY <1>2, <1>7 DEF vars, taskVars
<1> QED BY <1>3, <1>4, <1>5, <1>6, <1>7 DEF Next

(* The counters of two heartbeats heard one after the other differ by the  *)
(* number of beats between them, although heartbeat_counter wraps and goes *)
(* on when a frame is refused (HeartbeatDispatcher::procedure).            *)
THEOREM GapsAreCounted == Spec => GapCountsLost
<1>1. Init => CountInv /\ ReadInv
  BY InitCountInv, InitReadInv
<1>2. CountInv /\ ReadInv /\ [Next]_vars => (CountInv /\ ReadInv)' /\ GapStep
  <2>1. ReadInv => tasks \subseteq Tasks
    BY DEF ReadInv, WorldInv
  <2> QED BY <2>1, NextCountInv, NextReadInv
<1>3. Spec => [][GapStep]_vars
  BY <1>1, <1>2, PTL DEF Spec
<1> QED BY <1>3 DEF GapCountsLost, GapStep
================================================================================
