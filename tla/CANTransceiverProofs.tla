------------------------- MODULE CANTransceiverProofs -------------------------
(***************************************************************************)
(* Theorems about CANTransceiver, for every pool, receive buffer and set   *)
(* of frames: where the mail blocks are, and that handler and thread       *)
(* together are the channel of commands CommandChannel specifies.          *)
(***************************************************************************)
EXTENDS CANTransceiver, SequenceTheorems, FiniteSetTheorems, TLAPS

(* Every block is in one place only, and a block is in the mailbox once.   *)
Apart ==
  /\ \A i, j \in 1 .. Len(message_box) : message_box[i] = message_box[j] => i = j
  /\ \A i \in 1 .. Len(message_box) : message_box[i] \notin free \cup {next_message, msg}
  /\ next_message \notin free /\ msg \notin free
  /\ next_message = msg => msg = NULL

(* The thread holds a block while it works, and a command's until both     *)
(* calls are made; what is mailed has been received.                       *)
Working ==
  /\ msg = NULL <=> pc = "get"
  /\ pc \in {"enable", "conversions"} => content[msg].command
  /\ \A i \in 1 .. Len(message_box) : content[message_box[i]] \in Frames

(* BlocksAccounted alone counts the blocks, but does not say that one the  *)
(* handler fills is not in the mailbox.                                    *)
PoolInv == TypeOK /\ BlocksAccounted /\ Apart /\ Working

USE BlocksAssumption

(* The type of the contents; frames have the fields the code looks at.     *)
LEMMA FrameFields ==
  /\ Blank \in Frame
  /\ \A f \in Frames \cup {Blank} : f.command \in BOOLEAN /\ f.en_tr \in BOOLEAN
                                     /\ f.dis_cnv \in BOOLEAN
<1>1. Blank \in Frame
  BY DEF Frame, Blank
<1>2. \A f \in Frame : f.command \in BOOLEAN /\ f.en_tr \in BOOLEAN /\ f.dis_cnv \in BOOLEAN
  BY DEF Frame
<1> QED BY <1>1, <1>2, FramesAssumption

(* The pool starts with every block free.                                  *)
LEMMA InitPoolInv == Init => PoolInv
<1> SUFFICES ASSUME Init PROVE PoolInv
  OBVIOUS
<1>1. TypeOK
  <2>1. rx \in Seq(Frames) /\ Len(rx) = 0 /\ message_box \in Seq(Blocks)
    BY EmptySeq DEF Init
  <2>2. content \in [Blocks -> Frames \cup {Blank}]
    BY DEF Init
  <2>3. /\ Len(rx) <= HwDepth /\ in_rx \in BOOLEAN /\ free \subseteq Blocks
        /\ next_message = NULL /\ msg = NULL /\ pc = "get"
        /\ tractive \in BOOLEAN /\ conversions \in BOOLEAN /\ bms_started \in BOOLEAN
    <3>1. Len(rx) <= HwDepth
      BY <2>1, HwDepthAssumption
    <3> QED BY <3>1 DEF Init
  <2> QED BY <2>1, <2>2, <2>3 DEF TypeOK
<1>2. Cardinality(Blocks) \in Nat
  BY FS_CardinalityType
<1>3. BlocksAccounted
  BY <1>2 DEF Init, BlocksAccounted, Mailed
<1>4. Apart /\ Working
  BY DEF Init, Apart, Working
<1> QED BY <1>1, <1>3, <1>4 DEF PoolInv

(* Taking a block out of the pool, and putting one back.                   *)
LEMMA PoolSizes ==
  ASSUME NEW S \in SUBSET Blocks
  PROVE  /\ Cardinality(S) \in Nat
         /\ \A b \in S : Cardinality(S \ {b}) = Cardinality(S) - 1
         /\ \A b \in Blocks \ S : Cardinality(S \cup {b}) = Cardinality(S) + 1
<1>1. IsFiniteSet(S)
  BY FS_Subset
<1> QED BY <1>1, FS_CardinalityType, FS_RemoveElement, FS_AddElement

(* A frame that arrives leaves the pool as it is.                          *)
LEMMA FrameArrivesInv == ASSUME PoolInv, NEW f \in Frames, FrameArrives(f) PROVE PoolInv'
<1>1. TypeOK'
  <2>1. rx' \in Seq(Frames) /\ Len(rx') = Len(rx) + 1
    BY AppendProperties DEF FrameArrives, PoolInv, TypeOK
  <2>2. Len(rx') <= HwDepth
    BY <2>1, HwDepthAssumption, LenProperties DEF FrameArrives, PoolInv, TypeOK
  <2> QED BY <2>1, <2>2 DEF FrameArrives, PoolInv, TypeOK, hwVars, calleeVars
<1> QED BY <1>1 DEF FrameArrives, PoolInv, BlocksAccounted, Apart, Working, Mailed

(* The handler's step with a block preserves the pool invariant.           *)
LEMMA RxMailInv == ASSUME PoolInv, NEW b \in Blocks \cup {NULL}, RxMail(b) PROVE PoolInv'
<1>1. b \in Blocks /\ (b = next_message \/ (next_message = NULL /\ b \in free))
  BY DEF RxMail, Allocated, PoolInv, TypeOK
<1>2. /\ message_box \in Seq(Blocks) /\ message_box' \in Seq(Blocks)
      /\ Len(message_box) \in Nat
      /\ Len(message_box') = Len(message_box) + 1
      /\ \A i \in 1 .. Len(message_box) : message_box'[i] = message_box[i]
      /\ message_box'[Len(message_box) + 1] = b
  BY <1>1, AppendProperties, LenProperties DEF RxMail, PoolInv, TypeOK
<1>3. Head(rx) \in Frames /\ rx' \in Seq(Frames) /\ Len(rx') <= HwDepth
  BY HwDepthAssumption, HeadTailProperties, LenProperties DEF RxMail, PoolInv, TypeOK
<1>4. /\ content' \in [Blocks -> Frames \cup {Blank}] /\ content'[b] = Head(rx)
      /\ \A c \in Blocks \ {b} : content'[c] = content[c]
  BY <1>1, <1>3 DEF RxMail, PoolInv, TypeOK
<1>5. TypeOK'
  BY <1>2, <1>3, <1>4 DEF RxMail, PoolInv, TypeOK, calleeVars
<1>6. \A i \in 1 .. Len(message_box) : message_box[i] \in Blocks /\ message_box[i] # b /\ b # msg
  BY <1>1, <1>2, ElementOfSeq DEF PoolInv, Apart, TypeOK
<1>7. BlocksAccounted'
  <2>1. Mailed' = Mailed \cup {b}
    BY <1>2 DEF Mailed
  <2>2. Cardinality(free) \in Nat /\ Cardinality(Blocks) \in Nat
    BY PoolSizes DEF PoolInv, TypeOK
  <2>3. CASE b = next_message
    <3>1. free' = free
      BY <2>3 DEF RxMail, PoolInv, Apart
    <3>2. Blocks = free \cup Mailed \cup ({b, msg} \ {NULL})
      BY <2>3 DEF PoolInv, BlocksAccounted
    <3>3. (Blocks = free \cup Mailed \cup ({next_message, msg} \ {NULL}))'
      BY <1>1, <2>1, <3>1, <3>2 DEF RxMail
    <3>4. Cardinality(free) + Len(message_box) + 1 + (IF msg = NULL THEN 0 ELSE 1)
            = Cardinality(Blocks)
      BY <1>1, <1>2, <2>2, <2>3 DEF PoolInv, BlocksAccounted
    <3>5. msg' = msg /\ next_message' = NULL
      BY DEF RxMail
    <3>6. (Cardinality(free) + Len(message_box) + (IF next_message = NULL THEN 0 ELSE 1)
             + (IF msg = NULL THEN 0 ELSE 1) = Cardinality(Blocks))'
      BY <1>2, <2>2, <3>1, <3>4, <3>5
    <3> QED BY <3>3, <3>6 DEF BlocksAccounted
  <2>4. CASE next_message = NULL /\ b \in free
    <3>1. Cardinality(free') = Cardinality(free) - 1
      BY <2>4, PoolSizes DEF RxMail, PoolInv, TypeOK
    <3> QED BY <1>1, <1>2, <2>1, <2>2, <2>4, <3>1 DEF RxMail, PoolInv, BlocksAccounted
  <2> QED BY <1>1, <2>3, <2>4
<1>8. Apart'
  BY <1>1, <1>2, <1>6 DEF RxMail, PoolInv, Apart, TypeOK
<1>9. Working'
  <2>1. \A i \in 1 .. Len(message_box') : content'[message_box'[i]] \in Frames
    BY <1>2, <1>3, <1>4, <1>6 DEF PoolInv, Working
  <2>2. b # msg
    BY <1>1 DEF PoolInv, Apart
  <2> QED BY <1>4, <2>1, <2>2 DEF RxMail, PoolInv, Working, TypeOK
<1> QED BY <1>5, <1>7, <1>8, <1>9 DEF PoolInv

(* Entering the handler and its step without a block preserve the pool     *)
(* invariant.                                                              *)
LEMMA RxTrashInv == ASSUME PoolInv, RxTrash \/ EnterRx PROVE PoolInv'
<1>1. rx' \in Seq(Frames) /\ Len(rx') <= HwDepth
  BY HwDepthAssumption, HeadTailProperties, LenProperties DEF RxTrash, EnterRx, PoolInv, TypeOK
<1>2. TypeOK'
  BY <1>1 DEF RxTrash, EnterRx, PoolInv, TypeOK, calleeVars
<1> QED BY <1>2 DEF RxTrash, EnterRx, PoolInv, BlocksAccounted, Apart, Working, Mailed

(* Leaving the handler preserves the pool invariant.                       *)
LEMMA LeaveRxInv == ASSUME PoolInv, NEW b \in Blocks \cup {NULL}, LeaveRx(b) PROVE PoolInv'
<1>1. b = next_message \/ (next_message = NULL /\ b \in free)
  BY DEF LeaveRx, Allocated
<1>2. TypeOK'
  BY DEF LeaveRx, PoolInv, TypeOK, calleeVars
<1>3. BlocksAccounted'
  <2>1. Cardinality(free) \in Nat /\ Cardinality(Blocks) \in Nat /\ Len(message_box) \in Nat
    BY PoolSizes, LenProperties DEF PoolInv, TypeOK
  <2>2. CASE b = next_message
    <3>1. free' = free
      BY <2>2 DEF LeaveRx, PoolInv, Apart
    <3> QED BY <2>2, <3>1 DEF LeaveRx, PoolInv, BlocksAccounted, Mailed
  <2>3. CASE next_message = NULL /\ b \in free
    <3>1. Cardinality(free') = Cardinality(free) - 1 /\ b # NULL
      BY <2>3, PoolSizes DEF LeaveRx, PoolInv, TypeOK
    <3> QED BY <2>1, <2>3, <3>1 DEF LeaveRx, PoolInv, BlocksAccounted, Mailed
  <2> QED BY <1>1, <2>2, <2>3
<1>4. Apart'
  BY <1>1 DEF LeaveRx, PoolInv, Apart, TypeOK
<1>5. Working'
  BY DEF LeaveRx, PoolInv, Working
<1> QED BY <1>2, <1>3, <1>4, <1>5 DEF PoolInv

(* Taking a mail out of the queue preserves the pool invariant.            *)
LEMMA GetInv == ASSUME PoolInv, Get PROVE PoolInv'
<1>1. /\ message_box \in Seq(Blocks) /\ message_box # << >>
      /\ Len(message_box) \in Nat \ {0} /\ msg = NULL
  BY LenProperties, EmptySeq DEF Get, PoolInv, TypeOK, Working
<1>2. /\ msg' = message_box[1] /\ msg' \in Blocks
      /\ message_box' \in Seq(Blocks) /\ Len(message_box') = Len(message_box) - 1
      /\ \A i \in 1 .. Len(message_box) - 1 : message_box'[i] = message_box[i + 1]
  BY <1>1, HeadTailProperties DEF Get
<1>3. TypeOK'
  BY <1>2 DEF Get, PoolInv, TypeOK, hwVars, calleeVars
<1>4. Mailed = Mailed' \cup {msg'}
  <2>1. \A i \in 1 .. Len(message_box) : i = 1 \/ message_box[i] = message_box'[i - 1]
    BY <1>1, <1>2
  <2>2. Mailed \subseteq Mailed' \cup {msg'}
    <3> SUFFICES ASSUME NEW i \in 1 .. Len(message_box)
                 PROVE  message_box[i] \in Mailed' \cup {msg'}
      BY DEF Mailed
    <3>1. CASE i = 1
      BY <1>2, <3>1
    <3>2. CASE i # 1
      <4>1. i - 1 \in 1 .. Len(message_box') /\ message_box[i] = message_box'[i - 1]
        BY <1>1, <1>2, <2>1, <3>2
      <4> QED BY <4>1 DEF Mailed
    <3> QED BY <3>1, <3>2
  <2>3. Mailed' \cup {msg'} \subseteq Mailed
    BY <1>1, <1>2 DEF Mailed
  <2> QED BY <2>2, <2>3
<1>5. BlocksAccounted'
  <2>1. Cardinality(free) \in Nat /\ Cardinality(Blocks) \in Nat
    BY PoolSizes DEF PoolInv, TypeOK
  <2> QED BY <1>1, <1>2, <1>4, <2>1 DEF Get, PoolInv, BlocksAccounted
<1>6. Apart'
  <2>1. \A i \in 1 .. Len(message_box) - 1 : message_box'[i] # msg'
    BY <1>1, <1>2 DEF PoolInv, Apart
  <2> QED BY <1>1, <1>2, <2>1 DEF Get, PoolInv, Apart
<1>7. Working'
  BY <1>1, <1>2 DEF Get, PoolInv, Working
<1> QED BY <1>3, <1>5, <1>6, <1>7 DEF PoolInv

(* Dispatching a mail preserves the pool invariant.                        *)
LEMMA DispatchInv == ASSUME PoolInv, DispatchEnable \/ DispatchConversions PROVE PoolInv'
<1>1. msg \in Blocks
  BY DEF DispatchEnable, DispatchConversions, PoolInv, TypeOK, Working
<1>2. content[msg].en_tr \in BOOLEAN /\ content[msg].dis_cnv \in BOOLEAN
  BY <1>1, FrameFields DEF PoolInv, TypeOK
<1>3. TypeOK'
  BY <1>2 DEF DispatchEnable, DispatchConversions, PoolInv, TypeOK, hwVars
<1> QED BY <1>3 DEF DispatchEnable, DispatchConversions, PoolInv, BlocksAccounted, Apart,
                    Working, Mailed

(* Freeing a mail preserves the pool invariant.                            *)
LEMMA FreeInv == ASSUME PoolInv, Free PROVE PoolInv'
<1>1. msg \in Blocks /\ msg \notin free
  BY DEF Free, PoolInv, TypeOK, Working, Apart
<1>2. /\ Cardinality(free) \in Nat /\ Cardinality(Blocks) \in Nat /\ Len(message_box) \in Nat
      /\ Cardinality(free') = Cardinality(free) + 1
  BY <1>1, PoolSizes, LenProperties DEF Free, PoolInv, TypeOK
<1>3. TypeOK'
  BY <1>1 DEF Free, PoolInv, TypeOK, hwVars, calleeVars
<1>4. BlocksAccounted'
  BY <1>1, <1>2 DEF Free, PoolInv, BlocksAccounted, Mailed
<1>5. Apart'
  <2>1. \A i \in 1 .. Len(message_box) : message_box[i] \in Blocks
    BY ElementOfSeq DEF PoolInv, TypeOK
  <2> QED BY <1>1, <2>1 DEF Free, PoolInv, Apart, TypeOK
<1>6. Working'
  BY DEF Free, PoolInv, Working
<1> QED BY <1>3, <1>4, <1>5, <1>6 DEF PoolInv

(* Every step preserves the pool invariant.                                *)
LEMMA NextPoolInv == PoolInv /\ [Next]_vars => PoolInv'
<1> SUFFICES ASSUME PoolInv, [Next]_vars PROVE PoolInv'
  OBVIOUS
<1>1. CASE StartBMSController
  BY <1>1 DEF StartBMSController, PoolInv, TypeOK, BlocksAccounted, Apart, Working, Mailed, hwVars
<1>2. CASE UNCHANGED vars
  BY <1>2 DEF vars, hwVars, calleeVars, PoolInv, TypeOK, BlocksAccounted, Apart, Working, Mailed
<1> QED BY <1>1, <1>2, FrameArrivesInv, RxMailInv, RxTrashInv, LeaveRxInv, GetInv, DispatchInv,
           FreeInv DEF Next, RxInterrupt, Thread

(* The pool invariant holds in every behaviour.                            *)
LEMMA PoolInvHolds == Spec => []PoolInv
BY InitPoolInv, NextPoolInv, PTL DEF Spec

(* Every variable of the receive path keeps its type, and the controller's *)
(* buffer its bound.                                                       *)
THEOREM ReceiveTypeCorrect == Spec => []TypeOK
<1>1. PoolInv => TypeOK
  BY DEF PoolInv
<1> QED BY <1>1, PoolInvHolds, PTL

(* No block of the mail pool is leaked, freed twice or used by handler and *)
(* thread at once (rx_interrupt, procedure).                               *)
THEOREM PoolConserved == Spec => []BlocksAccounted
<1>1. PoolInv => BlocksAccounted
  BY DEF PoolInv
<1> QED BY <1>1, PoolInvHolds, PTL

(* A frame is thrown away only when every block holds a frame that has not *)
(* been dealt with (the trashcan of rx_interrupt).                         *)
THEOREM LossMeansFull == Spec => LostOnlyWhenFull
<1> DEFINE Lost == rx' # rx /\ Len(rx') < Len(rx) /\ message_box' = message_box
<1>1. PoolInv /\ [Next]_vars => [Lost => Busy = Cardinality(Blocks)]_vars
  <2> SUFFICES ASSUME PoolInv, Next, Lost PROVE Busy = Cardinality(Blocks)
    OBVIOUS
  <2>1. ASSUME NEW f \in Frames, FrameArrives(f) PROVE FALSE
    BY <2>1, AppendProperties, LenProperties DEF FrameArrives, PoolInv, TypeOK
  <2>2. ASSUME NEW b \in Blocks \cup {NULL}, RxMail(b) PROVE FALSE
    <3>1. b \in Blocks
      BY <2>2 DEF RxMail
    <3> QED BY <2>2, <3>1, AppendProperties, LenProperties DEF RxMail, PoolInv, TypeOK
  <2>3. CASE RxTrash
    <3>1. next_message = NULL /\ free = {}
      BY <2>3 DEF RxTrash, Allocated, PoolInv, TypeOK
    <3>2. Cardinality(free) = 0 /\ Len(message_box) \in Nat
      BY <3>1, FS_EmptySet, LenProperties DEF PoolInv, TypeOK
    <3> QED BY <3>1, <3>2 DEF PoolInv, BlocksAccounted, Busy
  <2>4. CASE UNCHANGED rx
    BY <2>4
  <2> QED BY <2>1, <2>2, <2>3, <2>4 DEF Next, RxInterrupt, EnterRx, LeaveRx, Thread, Get,
          DispatchEnable, DispatchConversions, Free, StartBMSController, hwVars
<1> QED BY <1>1, PoolInvHolds, PTL DEF Spec, LostOnlyWhenFull

(* The channel's queue is the frame being worked on, then the mailbox.     *)
Work == IF msg # NULL /\ pc # "free" THEN <<content[msg]>> ELSE << >>
Mail == [i \in 1 .. Len(message_box) |-> content[message_box[i]]]

(* The queue holds blocks of the pool.                                     *)
LEMMA QueueType ==
  ASSUME PoolInv
  PROVE  /\ Work \in Seq(Frames \cup {Blank}) /\ Mail \in Seq(Frames \cup {Blank})
         /\ Len(Mail) = Len(message_box) /\ Len(message_box) \in Nat
         /\ Len(Work) <= IF msg = NULL THEN 0 ELSE 1
<1>1. \A i \in 1 .. Len(message_box) : content[message_box[i]] \in Frames \cup {Blank}
  BY DEF PoolInv, Working
<1>2. Len(message_box) \in Nat
  BY LenProperties DEF PoolInv, TypeOK
<1>3. Mail \in Seq(Frames \cup {Blank}) /\ Len(Mail) = Len(message_box)
  BY <1>1, <1>2, IsASeq, LenProperties DEF Mail
<1>4. msg # NULL => content[msg] \in Frames \cup {Blank}
  BY DEF PoolInv, TypeOK
<1>5. Work \in Seq(Frames \cup {Blank}) /\ Len(Work) <= IF msg = NULL THEN 0 ELSE 1
  <2>1. CASE msg # NULL /\ pc # "free"
    BY <1>4, <2>1 DEF Work
  <2>2. CASE ~(msg # NULL /\ pc # "free")
    BY <2>2, EmptySeq DEF Work
  <2> QED BY <2>1, <2>2
<1> QED BY <1>2, <1>3, <1>5

(* Putting a frame behind, and taking the first, of two joined sequences.  *)
LEMMA JoinedSequences ==
  ASSUME NEW S, NEW s \in Seq(S), NEW t \in Seq(S), NEW x \in S
  PROVE  /\ s \o Append(t, x) = Append(s \o t, x)
         /\ << >> \o t = t
         /\ <<x>> \o t # << >> /\ Head(<<x>> \o t) = x /\ Tail(<<x>> \o t) = t
         /\ Len(s \o t) = Len(s) + Len(t)
<1>1. <<x>> \in Seq(S)
  OBVIOUS
<1>2. s \o Append(t, x) = Append(s \o t, x)
  BY <1>1, AppendIsConcat, ConcatAssociative, ConcatProperties
<1>3. << >> \o t = t
  BY ConcatEmptySeq
<1>4. <<x>> \o t # << >> /\ Head(<<x>> \o t) = x /\ Tail(<<x>> \o t) = t
  <2> DEFINE q == <<x>> \o t
  <2>1. q \in Seq(S) /\ Len(q) = Len(t) + 1 /\ Len(t) \in Nat
    BY <1>1, ConcatProperties, LenProperties
  <2>2. q[1] = x /\ \A i \in 1 .. Len(t) : q[i + 1] = t[i]
    BY <1>1, <2>1, ConcatProperties
  <2>3. q # << >>
    BY <2>1
  <2> HIDE DEF q
  <2>4. /\ Head(q) = x /\ Tail(q) \in Seq(S) /\ Len(Tail(q)) = Len(t)
        /\ \A i \in 1 .. Len(t) : Tail(q)[i] = t[i]
    BY <2>1, <2>2, <2>3, HeadTailProperties
  <2>5. Tail(q) = t
    BY <2>4, SeqEqual
  <2> QED BY <2>3, <2>4, <2>5 DEF q
<1> QED BY <1>2, <1>3, <1>4, ConcatProperties

(* A mail that is put: the channel accepts the frame it is filled with.    *)
LEMMA RxMailAccepts ==
  ASSUME PoolInv, NEW b \in Blocks \cup {NULL}, RxMail(b)
  PROVE  Channel!Accept(Head(rx)) /\ Head(rx) \in Frames
<1>1. Head(rx) \in Frames
  BY HeadTailProperties DEF RxMail, PoolInv, TypeOK
<1>2. b \in Blocks /\ (b = next_message \/ (next_message = NULL /\ b \in free))
  BY DEF RxMail, Allocated, PoolInv, TypeOK
<1>3. /\ message_box \in Seq(Blocks) /\ Len(message_box) \in Nat
      /\ Len(message_box') = Len(message_box) + 1
      /\ \A i \in 1 .. Len(message_box) : message_box'[i] = message_box[i]
      /\ message_box'[Len(message_box) + 1] = b
  BY <1>2, AppendProperties, LenProperties DEF RxMail, PoolInv, TypeOK
<1>4. /\ \A i \in 1 .. Len(message_box) : message_box[i] \in Blocks /\ message_box[i] # b
      /\ b # msg
  BY <1>2, <1>3, ElementOfSeq DEF PoolInv, Apart, TypeOK
<1>5. content'[b] = Head(rx) /\ \A c \in Blocks \ {b} : content'[c] = content[c]
  BY <1>2 DEF RxMail, PoolInv, TypeOK
<1>6. Work' = Work
  BY <1>4, <1>5 DEF Work, RxMail, PoolInv, TypeOK
<1>7. Mail' = Append(Mail, Head(rx))
  <2>1. Mail \in Seq(Frames \cup {Blank}) /\ Len(Mail) = Len(message_box)
    BY QueueType
  <2>2. PoolInv'
    BY RxMailInv
  <2>3. Mail' \in Seq(Frames \cup {Blank}) /\ Len(Mail') = Len(message_box) + 1
    BY <1>3, <1>1, <1>4, <1>5, <2>2, IsASeq, LenProperties DEF Mail, PoolInv, Working
  <2>4. \A i \in 1 .. Len(message_box) : Mail'[i] = Mail[i]
    BY <1>3, <1>4, <1>5 DEF Mail
  <2>5. Mail'[Len(message_box) + 1] = Head(rx)
    BY <1>3, <1>5 DEF Mail
  <2> HIDE DEF Mail
  <2> QED BY <1>1, <1>3, <2>1, <2>3, <2>4, <2>5, AppendProperties, SeqEqual
<1>8. (Work \o Mail)' = Append(Work \o Mail, Head(rx))
  BY <1>1, <1>6, <1>7, QueueType, JoinedSequences
<1>9. Len(Work \o Mail) < Cardinality(Blocks)
  <2>1. Len(Work \o Mail) <= Len(message_box) + (IF msg = NULL THEN 0 ELSE 1)
    BY QueueType, JoinedSequences, FrameFields
  <2>2. Cardinality(free) \in Nat /\ Cardinality(Blocks) \in Nat
    BY PoolSizes DEF PoolInv, TypeOK
  <2>3. Cardinality(free) + (IF next_message = NULL THEN 0 ELSE 1) > 0
    <3>1. CASE b = next_message
      BY <1>2, <2>2, <3>1
    <3>2. CASE next_message = NULL /\ b \in free
      <4>1. Cardinality(free \ {b}) \in Nat /\ Cardinality(free \ {b}) = Cardinality(free) - 1
        BY <3>2, PoolSizes DEF PoolInv, TypeOK
      <4> QED BY <2>2, <3>2, <4>1
    <3> QED BY <1>2, <3>1, <3>2
  <2>4. Len(Work \o Mail) \in Nat
    BY QueueType, ConcatProperties, LenProperties
  <2> QED BY <1>3, <2>1, <2>2, <2>3, <2>4 DEF PoolInv, BlocksAccounted
<1> QED BY <1>1, <1>8, <1>9 DEF Channel!Accept, Work, Mail, RxMail, calleeVars

(* A mail the thread gets stays at the head of the queue, unless it is no  *)
(* command: the channel ignores it then.                                   *)
LEMMA GetIgnores ==
  ASSUME PoolInv, Get
  PROVE  Channel!Ignore \/ UNCHANGED Channel!chanVars
<1>1. /\ message_box \in Seq(Blocks) /\ message_box # << >>
      /\ Len(message_box) \in Nat \ {0} /\ msg = NULL
  BY LenProperties, EmptySeq DEF Get, PoolInv, TypeOK, Working
<1>2. /\ msg' = message_box[1] /\ msg' \in Blocks
      /\ Len(message_box') = Len(message_box) - 1
      /\ \A i \in 1 .. Len(message_box) - 1 : message_box'[i] = message_box[i + 1]
  BY <1>1, HeadTailProperties DEF Get
<1>3. /\ Mail \in Seq(Frames \cup {Blank}) /\ Len(Mail) = Len(message_box)
      /\ Mail' \in Seq(Frames \cup {Blank}) /\ Len(Mail') = Len(message_box) - 1
  <2>1. PoolInv' /\ content' = content
    BY GetInv DEF Get
  <2>2. \A i \in 1 .. Len(message_box') : content'[message_box'[i]] \in Frames \cup {Blank}
    BY <2>1 DEF PoolInv, Working
  <2>3. Len(message_box') \in Nat
    BY <1>1, <1>2
  <2> QED BY <1>2, <2>2, <2>3, QueueType, IsASeq, LenProperties DEF Mail
<1>4. /\ Mail[1] = content[msg'] /\ content[msg'] \in Frames \cup {Blank}
      /\ \A i \in 1 .. Len(message_box) - 1 : Mail[i + 1] = Mail'[i]
  <2>1. content' = content
    BY DEF Get
  <2> QED BY <1>1, <1>2, <2>1 DEF Mail, PoolInv, Working
<1>5. Mail = <<content[msg']>> \o Mail'
  <2> DEFINE q == <<content[msg']>> \o Mail'
  <2>1. <<content[msg']>> \in Seq(Frames \cup {Blank})
    BY <1>4
  <2>2. q \in Seq(Frames \cup {Blank}) /\ Len(q) = Len(message_box)
    BY <1>1, <1>3, <2>1, ConcatProperties
  <2>3. q[1] = content[msg'] /\ \A i \in 1 .. Len(message_box) - 1 : q[i + 1] = Mail'[i]
    BY <1>1, <1>3, <2>1, ConcatProperties
  <2> HIDE DEF q, Mail
  <2>4. \A i \in 1 .. Len(message_box) :
          i = 1 \/ (i - 1 \in 1 .. Len(message_box) - 1 /\ i = (i - 1) + 1)
    BY <1>1
  <2>5. \A i \in 1 .. Len(message_box) : Mail[i] = q[i]
    BY <1>4, <2>3, <2>4
  <2>6. Mail = q
    BY <1>3, <2>2, <2>5, SeqEqual
  <2> QED BY <2>6 DEF q
<1>6. Work = << >> /\ Work \o Mail = Mail /\ msg' # NULL
  BY <1>1, <1>2, <1>3, JoinedSequences, <1>4 DEF Work
<1>7. CASE content[msg'].command
  <2>1. pc' = "enable" /\ Work' = <<content[msg']>>
    BY <1>1, <1>2, <1>6, <1>7 DEF Get, Work
  <2> QED BY <1>5, <1>6, <2>1 DEF Get, calleeVars, Channel!chanVars, Work, Mail
<1>8. CASE ~content[msg'].command
  <2>1. pc' = "free" /\ Work' = << >>
    BY <1>1, <1>2, <1>8 DEF Get, Work
  <2>2. (Work \o Mail)' = Tail(Work \o Mail) /\ Work \o Mail # << >>
        /\ Head(Work \o Mail) = content[msg']
    BY <1>3, <1>4, <1>5, <1>6, <2>1, JoinedSequences
  <2> QED BY <1>8, <2>1, <2>2 DEF Get, calleeVars, Channel!Ignore, Work, Mail
<1> QED BY <1>7, <1>8

(* While the thread works on a command it is the head of the queue.        *)
LEMMA DispatchPasses ==
  ASSUME PoolInv
  PROVE  /\ DispatchEnable => Channel!PassEnable
         /\ DispatchConversions => Channel!PassConversions
<1> SUFFICES ASSUME pc \in {"enable", "conversions"}
             PROVE  /\ DispatchEnable => Channel!PassEnable
                    /\ DispatchConversions => Channel!PassConversions
  BY DEF DispatchEnable, DispatchConversions
<1>1. msg # NULL /\ content[msg].command /\ content[msg] \in Frames \cup {Blank}
  BY DEF PoolInv, Working, TypeOK
<1>2. Work = <<content[msg]>>
  BY <1>1 DEF Work
<1>3. /\ Work \o Mail # << >> /\ Head(Work \o Mail) = content[msg]
      /\ Tail(Work \o Mail) = Mail
  BY <1>1, <1>2, QueueType, JoinedSequences
<1>4. ASSUME DispatchEnable PROVE Channel!PassEnable
  <2>1. (Work \o Mail)' = Work \o Mail
    BY <1>1, <1>4 DEF DispatchEnable, Work, Mail
  <2> QED BY <1>1, <1>3, <1>4, <2>1 DEF DispatchEnable, Channel!PassEnable, Work, Mail
<1>5. ASSUME DispatchConversions PROVE Channel!PassConversions
  <2>1. Mail' = Mail /\ Work' = << >>
    BY <1>5 DEF DispatchConversions, Work, Mail
  <2>2. (Work \o Mail)' = Mail
    BY <2>1, <1>1, QueueType, JoinedSequences
  <2> QED BY <1>1, <1>3, <1>5, <2>2 DEF DispatchConversions, Channel!PassConversions, Work, Mail
<1> QED BY <1>4, <1>5

(* For every pool, handler and thread are an in-order lossy channel: no    *)
(* command is doubled, changed or swapped (rx_interrupt, procedure,        *)
(* dispatch_message).                                                      *)
THEOREM ReceiveIsChannel == Spec => ImplementsChannel
<1>1. Init => Channel!ChanInit
  <2>1. Init => Work = << >> /\ Mail = << >>
    BY DEF Init, Work, Mail
  <2>2. << >> \o << >> = << >>
    OBVIOUS
  <2> QED BY <2>1, <2>2 DEF Init, Channel!ChanInit, Work, Mail
<1>2. PoolInv /\ [Next]_vars => [Channel!ChanNext]_Channel!chanVars
  <2> SUFFICES ASSUME PoolInv, [Next]_vars
               PROVE  Channel!ChanNext \/ UNCHANGED Channel!chanVars
    OBVIOUS
  <2>1. ASSUME NEW b \in Blocks \cup {NULL}, RxMail(b) PROVE Channel!ChanNext
    <3>1. Channel!Accept(Head(rx)) /\ Head(rx) \in Frames
      BY <2>1, RxMailAccepts
    <3>2. PICK f \in Frames : f = Head(rx)
      BY <3>1
    <3>3. Channel!Accept(f)
      BY <3>1, <3>2 DEF Channel!Accept
    <3> QED BY <3>3 DEF Channel!ChanNext
  <2>2. CASE Get
    BY <2>2, GetIgnores DEF Channel!ChanNext
  <2>3. CASE DispatchEnable \/ DispatchConversions
    BY <2>3, DispatchPasses DEF Channel!ChanNext
  <2>4. CASE Free
    <3>1. Work = << >> /\ Work' = << >>
      BY <2>4 DEF Free, Work
    <3> QED BY <2>4, <3>1 DEF Free, Channel!chanVars, calleeVars, Work
  <2>5. CASE StartBMSController
    BY <2>5 DEF StartBMSController, Channel!ChanNext, Channel!StartConversions
  <2>6. CASE UNCHANGED <<message_box, content, msg, pc, calleeVars>>
    BY <2>6 DEF Channel!chanVars, calleeVars
  <2> QED BY <2>1, <2>2, <2>3, <2>4, <2>5, <2>6 DEF Next, RxInterrupt, Thread, FrameArrives,
          EnterRx, RxTrash, LeaveRx, vars
<1> QED BY <1>1, <1>2, PoolInvHolds, PTL DEF Spec, ImplementsChannel, Channel!ChanSpec
===============================================================================
