----------------------------- MODULE RecoveryMC -----------------------------
EXTENDS Recovery
CONSTANTS r, c, d, A, B

Given(parents, deps, agents) ==
  [parent |-> [t \in Task |-> parents[t]], deps |-> [t \in Task |-> deps[t]],
   agent |-> [t \in Task |-> agents[t]]]

\* Two children, the second needs the first.  A child runs on its parent's agent or on
\* one of its own.
MCSiblings == {
  Given((r :> None) @@ (c :> r) @@ (d :> r), (r :> {}) @@ (c :> {}) @@ (d :> {c}),
        (r :> A) @@ (c :> B) @@ (d :> A))}

\* Besides these a chain; two roots of one agent, one delegates.
MCShape == MCSiblings \cup {
  Given((r :> None) @@ (c :> r) @@ (d :> c), (r :> {}) @@ (c :> {}) @@ (d :> {}),
        (r :> A) @@ (c :> B) @@ (d :> B)),
  Given((r :> None) @@ (c :> None) @@ (d :> c), (r :> {}) @@ (c :> {}) @@ (d :> {}),
        (r :> A) @@ (c :> A) @@ (d :> B))}
=============================================================================
