------------------------------ MODULE MCTrust ------------------------------
(* The manifests of a small instance of Trust. *)
EXTENDS Trust

Manifest(v, by, next, parses) == [version |-> v, by |-> by, next |-> next, reads |-> parses]

\* Two rotations of the key, a manifest of both, one of somebody else's key,
\* one that does not parse, and one of the last key.
MCManifests ==
    {Manifest(1, {"k0"}, "k1", TRUE), Manifest(2, {"k1"}, "k2", TRUE),
     Manifest(3, {"k0", "k1"}, "no key", TRUE), Manifest(9, {"other"}, "other", TRUE),
     Manifest(1, {"k0"}, "no key", FALSE), Manifest(4, {"k2"}, "no key", TRUE)}

MCAddresses == <<"first", "second">>
=============================================================================
