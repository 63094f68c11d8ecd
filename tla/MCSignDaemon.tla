---------------------------- MODULE MCSignDaemon ----------------------------
(***************************************************************************)
(* SignDaemon for TLC: two requests, one listing, a token that is plugged  *)
(* in and out and another that may be in the second slot.                  *)
(***************************************************************************)
EXTENDS SignDaemon, TLC

CONSTANTS r1, r2, l1, t1, t2, k1, k2, p1, p2, pdf, challenge, text, empty, u1, u2

\* A request for k1 while t2 is plugged in spends its login on the wrong token.
MCKeysOn == (t1 :> {k1}) @@ (t2 :> {k2})
MCPinOf == (t1 :> p1) @@ (t2 :> p2)

OneTokenKeys == t1 :> {k1}
OneTokenPin == t1 :> p1

MCShape == (pdf :> "pdf") @@ (challenge :> "challenge") @@ (text :> "text")
              @@ (empty :> "empty")

Well(format, key, doc) ==
    [json |-> TRUE, signFormat |-> format, cert |-> key, data |-> doc]

\* One body for every way through handleSign and the profiles.
AllBodies == {
    Well("PAdES-T", k1, pdf), Well("XAdES-T", k1, challenge),
    Well("XAdES-T", k2, text), Well("XAdES-T", k1, empty),
    Well("other", k1, pdf), Well("PAdES-T", "absent", pdf),
    Well("PAdES-T", "unidentified", pdf), Well("XAdES-T", k1, "undecodable"),
    [Well("PAdES-T", k1, pdf) EXCEPT !.json = FALSE]}

\* One body per profile.
ProfileBodies == {Well("PAdES-T", k1, pdf), Well("XAdES-T", k1, challenge),
                  Well("XAdES-T", k1, text)}

\* The two profiles that treat a disconnect differently.
TwoBodies == {Well("PAdES-T", k1, pdf), Well("XAdES-T", k1, text)}

Symmetry == Permutations({r1, r2}) \cup Permutations({u1, u2})
=============================================================================
