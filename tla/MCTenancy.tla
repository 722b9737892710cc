----------------------------- MODULE MCTenancy -----------------------------
(***************************************************************************)
(* Values for the constants of Tenancy: three addresses, of which one only  *)
(* founds, one only is invited and one does either, and one organization    *)
(* name that two founders pick, so that the second slug needs a suffix.     *)
(***************************************************************************)
EXTENDS Tenancy, TLC

CONSTANTS ann, bob, cyd, i1, i2, r1, r2

MCEmails == {ann, bob, cyd}
MCFounders == {ann, bob}
MCInvitees == {bob, cyd}
MCNames == {"Acme"}
MCSlugs == {"acme", "acme-1"}
MCMaxSuffix == 1
MCSlugOf == (<<"Acme", 0>> :> "acme") @@ (<<"Acme", 1>> :> "acme-1")

Symmetry == Permutations(InviteIds) \union Permutations(Requests)
============================================================================
