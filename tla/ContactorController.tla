------------------------- MODULE ContactorController -------------------------
(***************************************************************************)
(* The contactor driver of src/controller/ContactorController.cpp: the two *)
(* high-voltage contactors, the order in which they may be closed, and the *)
(* two timers that are started when a coil changes.                        *)
(*                                                                         *)
(* push_state runs with ContactorController's and StateController's        *)
(* current_state_lock held, initialise and the toggle callbacks change one *)
(* variable each, so an operation is an operator on the record c of        *)
(* controller state that StateController keeps:                            *)
(*   c.contactor  current_state of the contactor controller                *)
(*   c.coils      the contactors whose coil output is driven               *)
(*   c.running    the RTOS timers that are counting                        *)
(*   c.fireonce   the contactors whose ..._fireonce flag is set            *)
(*   c.overflow   a call recursed until its stack was exhausted            *)
(* The ..._hardware_error flags are FALSE for ever: the only code that     *)
(* would set them is commented out (lines 158-173).                        *)
(***************************************************************************)
EXTENDS Integers, FiniteSets

hvcInitialising            == 0
hvcLatchingMechanicalError == 1
hvcAllOpen                 == 2
hvcPrecharge               == 4
hvcHighCurrentRun          == 12

contactor_state_t ==
  {hvcInitialising, hvcLatchingMechanicalError, hvcAllOpen, hvcPrecharge,
   hvcHighCurrentRun}

(* AIR- ("precharge") and AIR+ ("run"), named as in the source.  The error *)
(* timer of a contactor goes by the name of the contactor.                 *)
Contactors == {"precharge", "run"}

HVC_MASK == [k \in Contactors |-> IF k = "precharge" THEN 4 ELSE 8]

(* The contactors whose mask bit is set in a contactor state.              *)
Driven(s) == {k \in Contactors : (s \div HVC_MASK[k]) % 2 = 1}

(* The order in which the contactors may be switched.                      *)
Accepts(old, new) ==
  \/ new = hvcLatchingMechanicalError
  \/ new = hvcAllOpen        /\ old >= hvcAllOpen
  \/ new = hvcPrecharge      /\ old = hvcAllOpen
  \/ new = hvcHighCurrentRun /\ old = hvcPrecharge

(* The tail of push_state: drive the coils from the state; every coil that *)
(* changes clears its flag and (re)starts its error timer.                 *)
Sync(c, s) ==
  LET toggled == {k \in Contactors : (k \in c.coils) # (k \in Driven(s))}
  IN  [c EXCEPT !.contactor = s,
                !.coils     = Driven(s),
                !.fireonce  = @ \ toggled,
                !.running   = @ \cup toggled]

(* Where a refused request leaves the state: open, unless the controller   *)
(* is initialising or has latched a mechanical error.                      *)
AfterRefusal(s) == IF s > hvcAllOpen THEN hvcAllOpen ELSE s

(* A plausible error in push_state: "|=" sets the bit of the precharge     *)
(* contactor and keeps the bit of hvcAllOpen.                              *)
push_state_SetsBit(c, new, raised) ==
  IF Accepts(c.contactor, new)
  THEN Sync(c, IF new = hvcPrecharge THEN c.contactor + new ELSE new)
  ELSE Sync(raised, AfterRefusal(raised.contactor))

(* push_state(new).  raised is c after the nested call                     *)
(* StateController::notify_event(sceContactorSequenceError) that a refused *)
(* request makes before it goes on.                                        *)
push_state(c, new, raised) ==
  IF Accepts(c.contactor, new) THEN Sync(c, new)
  ELSE IF raised.overflow THEN raised
  ELSE Sync(raised, AfterRefusal(raised.contactor))

(* precharge_toggle_cb and run_toggle_cb: the error timer of k has fired.  *)
(* The procedure() they call has an empty body.                            *)
toggle_cb(c, k) == [c EXCEPT !.fireonce = @ \cup {k}]

(* ContactorController::initialise.                                        *)
initialise_contactors(c) ==
  [c EXCEPT !.contactor = hvcAllOpen, !.fireonce = {}]
=============================================================================
