--------------------------- MODULE CANTransceiver ---------------------------
(***************************************************************************)
(* The receive path of src/net/CANTransceiver.cpp: the interrupt handler   *)
(* that moves frames from the CAN controller into mail blocks, the mailbox,*)
(* and the thread that dispatches commands and frees the blocks.           *)
(*                                                                         *)
(* The handler runs with every thread stopped (in_rx); frames go on        *)
(* arriving in the controller meanwhile.  A mail put from an interrupt is  *)
(* delivered by the kernel, in order, before any thread runs again, so it  *)
(* is appended to the mailbox at once.                                     *)
(***************************************************************************)
EXTENDS Naturals, Sequences, FiniteSets

CONSTANTS
  Frames,     \* the frames that may arrive
  Blocks,     \* the blocks of the mail pool: CAN_TRANSCIEVER_BUFFER_SIZE of them
  NULL,
  HwDepth     \* receive buffers of the CAN controller

(* What dispatch_message tells apart in a frame: whether it is a command   *)
(* (CANID_AMS_COMMAND_MESSAGE with at least one byte) and two of its bits. *)
Frame == [command : BOOLEAN, en_tr : BOOLEAN, dis_cnv : BOOLEAN]

(* The pool's memory before the first frame: zeroed static storage.        *)
Blank == [command |-> FALSE, en_tr |-> FALSE, dis_cnv |-> FALSE]

ASSUME FramesAssumption == Frames \subseteq Frame
ASSUME BlocksAssumption == IsFiniteSet(Blocks) /\ NULL \notin Blocks
ASSUME HwDepthAssumption == HwDepth \in Nat \ {0}

VARIABLES
  rx,             \* frames in the controller's receive buffers
  in_rx,          \* rx_interrupt is running
  free,           \* blocks in the mail pool
  next_message,   \* the block rx_interrupt will fill next, or NULL
  message_box,    \* blocks in the mailbox
  content,        \* the frame in each block
  msg,            \* the block the thread works on, or NULL
  pc,             \* where the thread is in procedure()
  tractive,       \* the value last passed to StateController::push_tractive_enable
  conversions,    \* BMSController::performConversions
  bms_started     \* BMSController::initialise has run

hwVars     == <<rx, in_rx>>
calleeVars == <<tractive, conversions, bms_started>>
vars == <<hwVars, free, next_message, message_box, content, msg, pc, calleeVars>>

Init ==
  /\ rx = << >>
  /\ in_rx = FALSE
  /\ free = Blocks
  /\ next_message = NULL
  /\ message_box = << >>
  /\ content = [b \in Blocks |-> Blank]
  /\ msg = NULL
  /\ pc = "get"
  /\ tractive = FALSE
  /\ conversions = FALSE
  /\ bms_started = FALSE
------------------------------------------------------------------------------
(* The CAN controller: a frame that finds the buffers full is lost.        *)

FrameArrives_Unbounded(f) ==
  /\ rx' = Append(rx, f)
  /\ UNCHANGED <<in_rx, free, next_message, message_box, content, msg, pc, calleeVars>>

FrameArrives(f) ==
  /\ Len(rx) < HwDepth
  /\ rx' = Append(rx, f)
  /\ UNCHANGED <<in_rx, free, next_message, message_box, content, msg, pc, calleeVars>>

(* rx_interrupt: it is entered when the controller holds a frame, and each *)
(* iteration of its loop is an action.  Before it reads, an iteration      *)
(* makes sure of a block if it can.                                        *)

EnterRx ==
  /\ ~in_rx /\ rx # << >>
  /\ in_rx' = TRUE
  /\ UNCHANGED <<rx, free, next_message, message_box, content, msg, pc, calleeVars>>

Allocated_HeldOnly == {next_message}

(* The choices for next_message after "if (next_message == NULL) ... alloc". *)
Allocated == IF next_message # NULL THEN {next_message}
             ELSE IF free = {} THEN {NULL} ELSE free

RxMail_KeepsBlock(b) ==
  /\ in_rx /\ rx # << >>
  /\ b \in Allocated \ {NULL}
  /\ free' = free \ {b}
  /\ content' = [content EXCEPT ![b] = Head(rx)]
  /\ rx' = Tail(rx)
  /\ message_box' = Append(message_box, b)
  /\ next_message' = b
  /\ UNCHANGED <<in_rx, msg, pc, calleeVars>>

RxMail(b) ==
  /\ in_rx /\ rx # << >>
  /\ b \in Allocated \ {NULL}
  /\ free' = free \ {b}
  /\ content' = [content EXCEPT ![b] = Head(rx)]
  /\ rx' = Tail(rx)
  /\ message_box' = Append(message_box, b)
  /\ next_message' = NULL
  /\ UNCHANGED <<in_rx, msg, pc, calleeVars>>

RxTrash ==
  /\ in_rx /\ rx # << >>
  /\ Allocated = {NULL}
  /\ rx' = Tail(rx)
  /\ UNCHANGED <<in_rx, free, next_message, message_box, content, msg, pc, calleeVars>>

(* The last iteration finds the controller empty, and keeps the block.     *)
LeaveRx(b) ==
  /\ in_rx /\ rx = << >>
  /\ b \in Allocated
  /\ next_message' = b
  /\ free' = free \ {b}
  /\ in_rx' = FALSE
  /\ UNCHANGED <<rx, message_box, content, msg, pc, calleeVars>>

RxInterrupt == EnterRx \/ RxTrash \/ \E b \in Blocks \cup {NULL} : RxMail(b) \/ LeaveRx(b)
------------------------------------------------------------------------------
(* procedure(): the thread gets a mail, dispatches it in two calls if it   *)
(* is a command, and frees the block.                                      *)

Get ==
  /\ ~in_rx /\ pc = "get" /\ message_box # << >>
  /\ msg' = Head(message_box)
  /\ message_box' = Tail(message_box)
  /\ pc' = IF content[Head(message_box)].command THEN "enable" ELSE "free"
  /\ UNCHANGED <<hwVars, free, next_message, content, calleeVars>>

DispatchEnable ==
  /\ ~in_rx /\ pc = "enable"
  /\ tractive' = content[msg].en_tr
  /\ pc' = "conversions"
  /\ UNCHANGED <<hwVars, free, next_message, message_box, content, msg,
                 conversions, bms_started>>

DispatchConversions ==
  /\ ~in_rx /\ pc = "conversions"
  /\ conversions' = ~content[msg].dis_cnv
  /\ pc' = "free"
  /\ UNCHANGED <<hwVars, free, next_message, message_box, content, msg,
                 tractive, bms_started>>

Free_CommandsOnly ==
  /\ ~in_rx /\ pc = "free"
  /\ free' = IF content[msg].command THEN free \cup {msg} ELSE free
  /\ msg' = NULL
  /\ pc' = "get"
  /\ UNCHANGED <<hwVars, next_message, message_box, content, calleeVars>>

Free ==
  /\ ~in_rx /\ pc = "free"
  /\ free' = free \cup {msg}
  /\ msg' = NULL
  /\ pc' = "get"
  /\ UNCHANGED <<hwVars, next_message, message_box, content, calleeVars>>

Thread == Get \/ DispatchEnable \/ DispatchConversions \/ Free

(* main() runs BMSController::initialise when this thread already serves.  *)
StartBMSController ==
  /\ ~in_rx /\ ~bms_started
  /\ conversions' = TRUE
  /\ bms_started' = TRUE
  /\ UNCHANGED <<hwVars, free, next_message, message_box, content, msg, pc, tractive>>
------------------------------------------------------------------------------
Next ==
  \/ \E f \in Frames : FrameArrives(f)
  \/ RxInterrupt
  \/ Thread
  \/ StartBMSController

Spec == Init /\ [][Next]_vars

(* The interrupt is served; a frame takes longer on the bus (94 us at      *)
(* 500 kbit/s) than an iteration of the handler, so the handler finds the  *)
(* controller empty again and again; and between two interrupts there is   *)
(* time for a thread that always wants to run.                             *)
FairSpec ==
  /\ Spec
  /\ WF_vars(RxInterrupt)
  /\ SF_vars(\E b \in Blocks \cup {NULL} : LeaveRx(b))
  /\ SF_vars(Thread)
------------------------------------------------------------------------------
(* Properties.                                                             *)

Mailed == {message_box[i] : i \in 1 .. Len(message_box)}

(* The type of the state; the controller never holds more than it can.     *)
TypeOK ==
  /\ rx \in Seq(Frames) /\ Len(rx) <= HwDepth
  /\ in_rx \in BOOLEAN
  /\ free \subseteq Blocks
  /\ next_message \in Blocks \cup {NULL}
  /\ message_box \in Seq(Blocks)
  /\ content \in [Blocks -> Frames \cup {Blank}]
  /\ msg \in Blocks \cup {NULL}
  /\ pc \in {"get", "enable", "conversions", "free"}
  /\ tractive \in BOOLEAN /\ conversions \in BOOLEAN /\ bms_started \in BOOLEAN

(* Each block of the pool is in exactly one place - the pool, the handler, *)
(* the mailbox or the thread - and the mailbox holds it once: no leak, no  *)
(* double free, no block written by rx_interrupt while procedure() reads   *)
(* it.                                                                     *)
BlocksAccounted ==
  /\ Blocks = free \cup Mailed \cup ({next_message, msg} \ {NULL})
  /\ Cardinality(free) + Len(message_box)
       + (IF next_message = NULL THEN 0 ELSE 1) + (IF msg = NULL THEN 0 ELSE 1)
       = Cardinality(Blocks)

Busy == Len(message_box) + (IF msg = NULL THEN 0 ELSE 1)

(* A frame goes to the trashcan only when every block holds a frame that   *)
(* has not been dealt with: a thread that keeps up loses nothing.          *)
LostOnlyWhenFull ==
  [][ rx' # rx /\ Len(rx') < Len(rx) /\ message_box' = message_box
        => Busy = Cardinality(Blocks) ]_vars

(* Every mail is dealt with and its block comes back to the pool.          *)
EveryMailFreed == \A b \in Blocks : b \in Mailed ~> b \in free

(* Frames are acted on in the order received, once each and unchanged,     *)
(* although handler and thread share blocks without a lock: the receive    *)
(* path implements the channel CommandChannel specifies.                   *)
Channel ==
  INSTANCE CommandChannel
    WITH Capacity <- Cardinality(Blocks),
         queue    <- (IF msg # NULL /\ pc # "free" THEN <<content[msg]>> ELSE << >>)
                       \o [i \in 1 .. Len(message_box) |-> content[message_box[i]]],
         half     <- pc = "conversions"

ImplementsChannel == Channel!ChanSpec
=============================================================================
