-------------------------- MODULE StreamReassembly --------------------------
(***************************************************************************)
(* What the receiving half of a stream promises, whatever the order, the   *)
(* overlap and the repetition of the frames that arrive: bytes that were   *)
(* accepted are never changed or dropped, and the application has been     *)
(* given exactly the contiguous prefix of them.                            *)
(***************************************************************************)
EXTENDS Integers

CONSTANTS
  Byte,             \* values of a byte
  MaxOffset         \* largest stream offset

VARIABLES
  received,         \* the accepted bytes, by stream offset
  delivered         \* the bytes given to the application, by stream offset

Offsets == 0..MaxOffset

(* The bytes of d below its first missing offset. *)
Prefix(d) ==
  [o \in {o \in DOMAIN d : 0..o \subseteq DOMAIN d} |-> d[o]]

Init ==
  /\ received = [o \in {} |-> 0]
  /\ delivered = received

(* A frame with the bytes from..to-1 is accepted. *)
Accept(from, to) ==
  /\ DOMAIN received' = DOMAIN received \union from..(to - 1)
  /\ \A o \in DOMAIN received : received'[o] = received[o]
  /\ delivered' = Prefix(received')

Next == \E from, to \in Offsets : Accept(from, to)

Spec == Init /\ [][Next]_<<received, delivered>>
=============================================================================
