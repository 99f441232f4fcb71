--------------------------- MODULE RecoveryDeepMC ---------------------------
EXTENDS Recovery
CONSTANTS p, q, g, s, t, A, B

\* A parent on agent A hands over three steps, one after the other, to agent B; the first
\* of them hands one back to A, which is then idle on a task two levels down.
MCDeepShape == {
  [parent |-> (p :> None) @@ (q :> p) @@ (g :> q) @@ (s :> p) @@ (t :> p),
   deps |-> (p :> {}) @@ (q :> {}) @@ (g :> {}) @@ (s :> {q}) @@ (t :> {s}),
   agent |-> (p :> A) @@ (q :> B) @@ (g :> A) @@ (s :> B) @@ (t :> B)]}
=============================================================================
