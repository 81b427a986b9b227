----------------------------- MODULE CANTransmit -----------------------------
(***************************************************************************)
(* CANTransceiver::write, rderrors and tderrors with the driver below them *)
(* (CAN.cpp, can_api.c): three dispatcher threads share the transmit       *)
(* buffers under driver_lock and, nested in it, the driver's own mutex.    *)
(*                                                                         *)
(* The receive interrupt calls the same driver, but the mutex refuses an   *)
(* interrupt, and what it touches are the receive registers.               *)
(***************************************************************************)
EXTENDS Naturals, Sequences

CONSTANTS
  Senders,     \* the dispatcher threads; a frame is known by its sender
  Heartbeat,   \* the sender that reads the error counters first
  TxBuffers, NULL

ASSUME HeartbeatAssumption == Heartbeat \in Senders /\ NULL \notin Senders
ASSUME TxBuffersAssumption == TxBuffers \subseteq 1 .. 3   \* can_write knows three

VARIABLES
  tx,           \* the frame pending in each buffer, or NULL
  driver_lock,  \* CANTransceiver::driver_lock: its owner, or NULL
  can_mutex,    \* CAN::_mutex: its owner, or NULL
  pc,           \* what a sender does next
  slot          \* the buffer its look at SR has found, or NULL

vars == <<tx, driver_lock, can_mutex, pc, slot>>

Init ==
  /\ tx = [b \in TxBuffers |-> NULL]
  /\ driver_lock = NULL /\ can_mutex = NULL
  /\ pc = [s \in Senders |-> "wait"]
  /\ slot = [s \in Senders |-> NULL]

Goto(s, from, to) == pc[s] = from /\ pc' = [pc EXCEPT ![s] = to]

(* The period is over; the heartbeat reads both error counters first.      *)
Begin(s) ==
  /\ Goto(s, "wait", IF s = Heartbeat THEN "rderror" ELSE "write")
  /\ UNCHANGED <<tx, driver_lock, can_mutex, slot>>

(* CAN::rderror, CAN::tderror: lock, read, unlock.                         *)
LockForError(s) ==
  /\ can_mutex = NULL
  /\ Goto(s, "rderror", "rdunlock") \/ Goto(s, "tderror", "tdunlock")
  /\ can_mutex' = s
  /\ UNCHANGED <<tx, driver_lock, slot>>

UnlockAfterError(s) ==
  /\ Goto(s, "rdunlock", "tderror") \/ Goto(s, "tdunlock", "write")
  /\ can_mutex' = NULL
  /\ UNCHANGED <<tx, driver_lock, slot>>

LockDriver(s) ==
  /\ driver_lock = NULL
  /\ Goto(s, "write", "lock")
  /\ driver_lock' = s
  /\ UNCHANGED <<tx, can_mutex, slot>>

LockCan(s) ==
  /\ can_mutex = NULL
  /\ Goto(s, "lock", "status")
  /\ can_mutex' = s
  /\ UNCHANGED <<tx, driver_lock, slot>>

EmptyBuffers == {b \in TxBuffers : tx[b] = NULL}

Chosen_First ==
  IF EmptyBuffers = {} THEN NULL ELSE CHOOSE b \in TxBuffers : \A c \in TxBuffers : b <= c

Chosen_ZeroBased == IF EmptyBuffers = {} THEN NULL ELSE (CHOOSE b \in EmptyBuffers : TRUE) - 1

(* The first buffer that SR shows empty.                                   *)
Chosen == IF EmptyBuffers = {} THEN NULL
          ELSE CHOOSE b \in EmptyBuffers : \A c \in EmptyBuffers : b <= c

ReadStatus_Waits(s) ==
  /\ Chosen # NULL
  /\ Goto(s, "status", "fill")
  /\ slot' = [slot EXCEPT ![s] = Chosen]
  /\ UNCHANGED <<tx, driver_lock, can_mutex>>

ReadStatus(s) ==
  /\ Goto(s, "status", IF Chosen = NULL THEN "unlock" ELSE "fill")
  /\ slot' = [slot EXCEPT ![s] = Chosen]
  /\ UNCHANGED <<tx, driver_lock, can_mutex>>

Fill(s) ==
  /\ Goto(s, "fill", "unlock")
  /\ tx' = [tx EXCEPT ![slot[s]] = s]
  /\ UNCHANGED <<driver_lock, can_mutex, slot>>

UnlockCan(s) ==
  /\ Goto(s, "unlock", "release")
  /\ can_mutex' = NULL
  /\ slot' = [slot EXCEPT ![s] = NULL]
  /\ UNCHANGED <<tx, driver_lock>>

UnlockDriver(s) ==
  /\ Goto(s, "release", "wait")
  /\ driver_lock' = NULL
  /\ UNCHANGED <<tx, can_mutex, slot>>

(* The controller has sent the frame in buffer b.                          *)
Sent(b) ==
  /\ tx[b] # NULL
  /\ tx' = [tx EXCEPT ![b] = NULL]
  /\ UNCHANGED <<driver_lock, can_mutex, pc, slot>>

Lock(s)  == LockForError(s) \/ LockDriver(s) \/ LockCan(s)
Other(s) == UnlockAfterError(s) \/ ReadStatus(s) \/ Fill(s) \/ UnlockCan(s) \/ UnlockDriver(s)

Next ==
  \/ \E s \in Senders : Begin(s) \/ Lock(s) \/ Other(s)
  \/ \E b \in TxBuffers : Sent(b)

(* A sender that holds a lock goes on; a mutex is handed to the waiters in *)
(* turn.  The bus may be dead.                                             *)
Spec == Init /\ [][Next]_vars /\ \A s \in Senders : WF_vars(Other(s)) /\ SF_vars(Lock(s))
------------------------------------------------------------------------------
(* Properties.                                                             *)

PCs == {"wait", "rderror", "rdunlock", "tderror", "tdunlock", "write", "lock",
        "status", "fill", "unlock", "release"}

TypeOK ==
  /\ tx \in [TxBuffers -> Senders \cup {NULL}]
  /\ {driver_lock, can_mutex} \subseteq Senders \cup {NULL}
  /\ pc \in [Senders -> PCs]
  /\ slot \in [Senders -> TxBuffers \cup {NULL}]

(* No frame is overwritten before it is sent, although senders look at the *)
(* status and fill a buffer in two steps: a write is one atomic acceptance *)
(* or refusal.                                                             *)
Buffers == INSTANCE TransmitBuffers WITH TxFrames <- Senders

ImplementsBuffers == Buffers!TxSpec

(* Every write returns, also when the bus is dead and every buffer stays   *)
(* full: the two nested locks never deadlock, and a full controller blocks *)
(* no sender.                                                              *)
WritesReturn == \A s \in Senders : pc[s] # "wait" ~> pc[s] = "wait"
=============================================================================
