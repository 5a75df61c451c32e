----------------------------- MODULE MCTenancy -----------------------------
EXTENDS Tenancy, TLC
CONSTANTS ann, bob, a, b, pa, ea, ka, sa, va, new, log, pb, eb, sb

\* Organization a has a project down to one version of a secret, room for a
\* second version and an audit entry; b has a project with one secret.
MCParent ==
  pa :> a @@ ea :> pa @@ ka :> ea @@ sa :> ea @@ va :> sa @@ new :> sa @@ log :> a @@
  pb :> b @@ eb :> pb @@ sb :> eb
MCKindOf ==
  [x \in Row |-> CASE x \in {pa, pb} -> "project"
                   [] x \in {ea, eb} -> "environment"
                   [] x = ka         -> "key"
                   [] x \in {sa, sb} -> "secret"
                   [] x \in {va, new} -> "version"
                   [] x = log        -> "entry"]
Symmetry == Permutations(Request) \cup Permutations(Connection)
MCSeedRole ==
  ann :> (a :> "member" @@ b :> None) @@ bob :> (a :> None @@ b :> "viewer")
=============================================================================
