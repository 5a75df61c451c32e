----------------------------- MODULE MCCatalog -----------------------------
EXTENDS Catalog, TLC
CONSTANTS u1, u2, org, other, proj, n1, n2

\* Two organizations, one with a project: u1 owns it and u2, who owns the
\* other, is an ordinary member.
MCSeedRow ==
  org   :> [kind |-> "org", parent |-> Nowhere, name |-> n1] @@
  other :> [kind |-> "org", parent |-> Nowhere, name |-> n2] @@
  proj  :> [kind |-> "project", parent |-> org, name |-> n1]
MCSeedRole ==
  u1 :> (org :> "owner" @@ other :> "none" @@ proj :> "none") @@
  u2 :> (org :> "member" @@ other :> "owner" @@ proj :> "none")

MCSymmetry == Permutations(Request)
=============================================================================
