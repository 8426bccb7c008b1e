------------------------------ MODULE MCRcInput ------------------------------
(* The sticks at both ends, in the middle and anywhere; the gear switches  *)
(* all off and mixed; one level of the three-way switches per range.       *)
EXTENDS RcInput

MCPositions == { [k \in Sticks |-> CASE k = 0 -> 1023 [] k = 1 -> 0 [] k = 2 -> 777 [] OTHER -> 333],
                 [k \in Sticks |-> CASE k = 0 -> 0 [] k = 1 -> 1023 [] k = 2 -> 500 [] OTHER -> 1] }
MCGears == { [g \in 0 .. 3 |-> 0], [g \in 0 .. 3 |-> IF g = 2 THEN 0 ELSE 1] }
MCGearLevels == { [left |-> 333, mid |-> 334, right |-> 667],
                  [left |-> 666, mid |-> 667, right |-> 0] }
MCPressedKeys == { {}, {1, 2, 3} }

(* Until the sender has written channels again, what it holds is the last  *)
(* packet's, and nobody reads it. *)
MCView == <<position, moves, calibrations, keyVars, sPc, stick, calibratedAt,
            CASE sPc \in {"filter", "unlock"} -> <<filteredAt, centred>>
              [] sPc = "correct" -> <<filteredAt>>
              [] sPc \in {"key2", "switches"} -> <<centred, [c \in Sticks |-> channels[c]]>>
              [] OTHER -> <<centred, channels>> >>
==============================================================================
