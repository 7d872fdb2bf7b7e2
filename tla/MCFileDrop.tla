---------------------------- MODULE MCFileDrop -----------------------------
(* Small instances of FileDrop: one name that is dropped twice for a       *)
(* partner with refnums, and one file for a partner without, who is        *)
(* missing from some versions of partners.yaml.                            *)
EXTENDS FileDrop, TLC

CONSTANTS d1, d2, d3, twice, once, numbered, plain

MCPathOf == (d1 :> twice) @@ (d2 :> twice) @@ (d3 :> once)
TwoPaths == (d1 :> twice) @@ (d3 :> once)
MCDirOf == (twice :> numbered) @@ (once :> plain)
FullRegistry == {{numbered, plain}}
AnyRegistry == {{numbered, plain}, {numbered}}

(* Two writings of one name are alike to the poller. *)
Rewritten == Permutations({d1, d2})
=============================================================================
