--------------------------- MODULE CommandChannel ---------------------------
(***************************************************************************)
(* What CANTransceiver promises its callees: frames are acted on one at a  *)
(* time, in the order they were accepted, each once and as it was          *)
(* received; a frame may be lost, but only instead of being accepted.      *)
(***************************************************************************)
EXTENDS Naturals, Sequences

CONSTANTS
  Frames,     \* the frames on the bus (see CANTransceiver)
  Capacity    \* how many accepted frames may wait

VARIABLES
  queue,        \* accepted frames, the one being acted on at the head
  half,         \* the head's enable has been passed on, its conversions not yet
  tractive,     \* the value last passed to StateController
  conversions   \* BMSController's performConversions output

chanVars == <<queue, half, tractive, conversions>>

ChanInit == queue = << >> /\ half = FALSE /\ tractive = FALSE /\ conversions = FALSE

Accept(f) ==
  /\ Len(queue) < Capacity
  /\ queue' = Append(queue, f)
  /\ UNCHANGED <<half, tractive, conversions>>

Ignore ==
  /\ queue # << >> /\ ~Head(queue).command
  /\ queue' = Tail(queue)
  /\ UNCHANGED <<half, tractive, conversions>>

PassEnable ==
  /\ queue # << >> /\ Head(queue).command /\ ~half
  /\ tractive' = Head(queue).en_tr
  /\ half' = TRUE
  /\ UNCHANGED <<queue, conversions>>

PassConversions ==
  /\ half
  /\ conversions' = ~Head(queue).dis_cnv
  /\ half' = FALSE
  /\ queue' = Tail(queue)
  /\ UNCHANGED tractive

(* BMSController's own start-up turns the conversions on.                  *)
StartConversions == conversions' = TRUE /\ UNCHANGED <<queue, half, tractive>>

ChanNext ==
  \/ \E f \in Frames : Accept(f)
  \/ Ignore \/ PassEnable \/ PassConversions \/ StartConversions

ChanSpec == ChanInit /\ [][ChanNext]_chanVars
=============================================================================
