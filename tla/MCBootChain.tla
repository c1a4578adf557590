----------------------------- MODULE MCBootChain -----------------------------
(***************************************************************************)
(* BootChain with two slaves, chunks of four words and images of less than one    *)
(* chunk, one, one and a half and two, too large, and empty.                      *)
(***************************************************************************)
EXTENDS BootChain

MCSlaves == {"hermes", "janus"}
MCKey == [m \in MCSlaves \cup {"olympus"} |->
            CASE m = "olympus" -> 1001 [] m = "hermes" -> 1002 [] m = "janus" -> 1003]

Job(m, words) == [mcu |-> m, size |-> 4 * words]

MCJobLists ==
  { <<Job("hermes", a), Job(m, b), Job("olympus", c)>> :
      a \in {0, 4, 6, 9}, m \in MCSlaves, b \in {0, 1, 8, 9}, c \in {0, 5, 9} }
  \cup
  { <<Job("olympus", 6)>>,
    <<Job("olympus", 0)>>,
    <<Job("olympus", 9)>>,
    <<Job("hermes", 6), Job("hermes", 1), Job("hermes", 4), Job("olympus", 1)>>,
    <<Job("hermes", 1), Job("janus", 0), Job("janus", 1), Job("olympus", 1)>> }

(* Boot.py accepts the same processor twice. *)
MCOlympusTwice == { <<Job("olympus", 4), Job("olympus", 3)>> }

=============================================================================
