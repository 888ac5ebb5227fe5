--------------------------- MODULE MCEventStreams ---------------------------
(* Instances of EventStreams for TLC. *)
EXTENDS EventStreams

CONSTANTS r1, r2, r3, d1, u1, u2, u3, a, b

ThreeRunStreams == {r1, r2, r3}
OneDashboard == {d1}
ThreeUsers == {u1, u2, u3}
Owner == [s \in {r1, r2, r3, d1} |-> IF s = r1 THEN u2 ELSE IF s = r3 THEN u3 ELSE u1]
TwoRows == {a, b}

\* No control of a stream reads the table, and the table's property is about one
\* dashboard: transactions are explored while it runs and no run stream does.
TableApart ==
    now > 1 => (\E s \in WorkspaceStreams : Live(s)) /\ \A s \in RunStreams : ~Live(s)
=============================================================================
