-------------------------- MODULE MCConfiguration --------------------------
(***************************************************************************)
(* Three cameras, two of which are plugged in at a time, and the files an  *)
(* earlier session may have left.                                          *)
(***************************************************************************)
EXTENDS Configuration

CONSTANTS a, b, c, other

Entry(position, choice) == [position |-> position, settings |-> choice]

\* No file; a pair that was swapped; a role of a camera that may be elsewhere now.
EarlierFiles ==
    {Absent,
     [x \in Cameras |-> CASE x = a -> Entry("even", other)
                          [] x = b -> Entry("odd", Default)
                          [] OTHER -> Entry(Nowhere, Default)],
     [x \in Cameras |-> IF x = c THEN Entry("even", other) ELSE Entry(Nowhere, Default)]}
=============================================================================
