--------------------------- MODULE MCServingCert ---------------------------
(***************************************************************************)
(* ServingCert for TLC: three runs of openmdsignd, one of which is told to *)
(* serve as another hostname, and a key pair for each to mint.             *)
(***************************************************************************)
EXTENDS ServingCert, TLC

CONSTANTS a, b, c, x, y, z, h1, h2

MCHostname == (a :> h1) @@ (b :> h1) @@ (c :> h2)
MCCovers == (x :> h1) @@ (y :> h1) @@ (z :> h2)

Symmetry == Permutations({a, b}) \cup Permutations({x, y})
=============================================================================
