------------------------------ MODULE ByteStream ------------------------------
(***************************************************************************)
(* What a byte buffer between an interrupt handler and the main loop         *)
(* promises (olympus/utils/doubleBuffer.h): the reader gets the accepted      *)
(* bytes, each once and in order, and no more than Capacity of them wait.     *)
(* Bytes are numbered by their position in the accepted stream.               *)
(***************************************************************************)
EXTENDS Integers

CONSTANT Capacity

VARIABLES
  put,  \* bytes accepted so far
  got,  \* bytes delivered so far
  out   \* the bytes delivered last, as a function on 0 .. count - 1

vars == <<put, got, out>>

Init == put = 0 /\ got = 0 /\ out = [i \in {} |-> 0]

(* Some bytes are accepted, as many as there is room for or fewer. *)
Write ==
  /\ put' \in put .. got + Capacity
  /\ UNCHANGED <<got, out>>

(* The next k waiting bytes are delivered. *)
Read ==
  \E k \in 1 .. put - got :
    /\ got' = got + k
    /\ out' = [i \in 0 .. k - 1 |-> got + 1 + i]
    /\ UNCHANGED put

Next == Write \/ Read

Spec == Init /\ [][Next]_vars

=============================================================================
