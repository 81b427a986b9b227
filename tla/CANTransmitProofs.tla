-------------------------- MODULE CANTransmitProofs --------------------------
(***************************************************************************)
(* Theorems about CANTransmit, for every set of senders: two nested locks  *)
(* make a look at the status register and the filling of a buffer one step *)
(* to everybody else.                                                      *)
(***************************************************************************)
EXTENDS CANTransmit, TLAPS

InCan    == {"rdunlock", "tdunlock", "status", "fill", "unlock"}
InDriver == {"lock", "status", "fill", "unlock", "release"}

(* Who is inside a lock's section owns it, and the buffer found empty has  *)
(* stayed so.  The first conjuncts are needed for the last: only the owner *)
(* of can_mutex fills a buffer.                                            *)
TxInv ==
  /\ TypeOK
  /\ \A s \in Senders : pc[s] \in InCan <=> can_mutex = s
  /\ \A s \in Senders : pc[s] \in InDriver <=> driver_lock = s
  /\ \A s \in Senders : pc[s] = "fill" => slot[s] \in TxBuffers /\ tx[slot[s]] = NULL

(* can_write chooses one of the empty buffers if there is any.             *)
LEMMA ChosenIsEmpty ==
  IF EmptyBuffers = {} THEN Chosen = NULL ELSE Chosen \in EmptyBuffers
<1> SUFFICES ASSUME EmptyBuffers # {}
             PROVE  \E b \in EmptyBuffers : \A c \in EmptyBuffers : b <= c
  BY DEF Chosen
<1>1. EmptyBuffers \subseteq 1 .. 3
  BY TxBuffersAssumption DEF EmptyBuffers
<1>2. CASE 1 \in EmptyBuffers
  BY <1>1, <1>2
<1>3. CASE 1 \notin EmptyBuffers /\ 2 \in EmptyBuffers
  BY <1>1, <1>3
<1>4. CASE 1 \notin EmptyBuffers /\ 2 \notin EmptyBuffers
  <2>1. \A c \in EmptyBuffers : c = 3
    BY <1>1, <1>4
  <2>2. 3 \in EmptyBuffers
    BY <2>1
  <2> QED BY <2>1, <2>2
<1> QED BY <1>2, <1>3, <1>4

(* Nobody is writing at the start, and no lock is held.                    *)
LEMMA InitTxInv == Init => TxInv
BY HeartbeatAssumption DEF Init, TxInv, TypeOK, PCs, InCan, InDriver

(* Every step of a sender or of the controller preserves the invariant.    *)
LEMMA NextTxInv == TxInv /\ [Next]_vars => TxInv'
<1> SUFFICES ASSUME TxInv, [Next]_vars PROVE TxInv'
  OBVIOUS
<1> USE HeartbeatAssumption DEF TxInv, TypeOK, PCs, InCan, InDriver
<1>1. ASSUME NEW s \in Senders, Begin(s) PROVE TxInv'
  BY <1>1 DEF Begin, Goto
<1>2. ASSUME NEW s \in Senders, LockForError(s) PROVE TxInv'
  BY <1>2 DEF LockForError, Goto
<1>3. ASSUME NEW s \in Senders, UnlockAfterError(s) PROVE TxInv'
  BY <1>3 DEF UnlockAfterError, Goto
<1>4. ASSUME NEW s \in Senders, LockDriver(s) PROVE TxInv'
  BY <1>4 DEF LockDriver, Goto
<1>5. ASSUME NEW s \in Senders, LockCan(s) PROVE TxInv'
  BY <1>5 DEF LockCan, Goto
<1>6. ASSUME NEW s \in Senders, ReadStatus(s) PROVE TxInv'
  <2>1. CASE EmptyBuffers = {}
    <3>1. Chosen = NULL
      BY <2>1, ChosenIsEmpty
    <3> QED BY <1>6, <3>1 DEF ReadStatus, Goto
  <2>2. CASE EmptyBuffers # {}
    <3>1. Chosen \in TxBuffers /\ tx[Chosen] = NULL
      BY <2>2, ChosenIsEmpty DEF EmptyBuffers
    <3> QED BY <1>6, <3>1 DEF ReadStatus, Goto
  <2> QED BY <2>1, <2>2
<1>7. ASSUME NEW s \in Senders, Fill(s) PROVE TxInv'
  BY <1>7 DEF Fill, Goto
<1>8. ASSUME NEW s \in Senders, UnlockCan(s) PROVE TxInv'
  BY <1>8 DEF UnlockCan, Goto
<1>9. ASSUME NEW s \in Senders, UnlockDriver(s) PROVE TxInv'
  BY <1>9 DEF UnlockDriver, Goto
<1>10. ASSUME NEW b \in TxBuffers, Sent(b) PROVE TxInv'
  BY <1>10 DEF Sent
<1>11. CASE UNCHANGED vars
  BY <1>11 DEF vars
<1> QED BY <1>1, <1>2, <1>3, <1>4, <1>5, <1>6, <1>7, <1>8, <1>9, <1>10, <1>11
    DEF Next, Lock, Other

(* The invariant of the transmit path holds in every behaviour.            *)
LEMMA TxInvHolds == Spec => []TxInv
BY InitTxInv, NextTxInv, PTL DEF Spec

(* Every variable of the transmit path keeps its type (write, rderrors).   *)
THEOREM TransmitTypeCorrect == Spec => []TypeOK
<1>1. TxInv => TypeOK
  BY DEF TxInv
<1> QED BY <1>1, TxInvHolds, PTL

(* A pending frame is never overwritten: for every number of senders, what *)
(* can_write does in several register accesses is one acceptance into an   *)
(* empty buffer or one refusal.                                            *)
THEOREM WritesAreAtomic == Spec => ImplementsBuffers
<1>1. Init => Buffers!TxInit
  BY DEF Init, Buffers!TxInit
<1>2. TxInv /\ [Next]_vars => [Buffers!TxNext]_tx
  <2> SUFFICES ASSUME TxInv, [Next]_vars, tx' # tx PROVE Buffers!TxNext
    OBVIOUS
  <2>1. ASSUME NEW s \in Senders, Fill(s) PROVE Buffers!TxNext
    <3>1. slot[s] \in Buffers!EmptyBuffers
      BY <2>1 DEF TxInv, Fill, Goto, Buffers!EmptyBuffers
    <3>2. tx' = [tx EXCEPT ![slot[s]] = s]
      BY <2>1 DEF Fill
    <3> QED BY <3>1, <3>2 DEF Buffers!TxNext, Buffers!Accept
  <2>2. ASSUME NEW b \in TxBuffers, Sent(b) PROVE Buffers!TxNext
    BY <2>2 DEF Sent, Buffers!TxNext, Buffers!Transmit
  <2> QED BY <2>1, <2>2 DEF Next, Lock, Other, vars, Begin, LockForError,
          UnlockAfterError, LockDriver, LockCan, ReadStatus, UnlockCan, UnlockDriver
<1> QED BY <1>1, <1>2, TxInvHolds, PTL DEF Spec, ImplementsBuffers, Buffers!TxSpec
==============================================================================
