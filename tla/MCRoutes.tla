-------------------------------- MODULE MCRoutes --------------------------------
(* Small instances of Routes for TLC. *)
EXTENDS Routes, TLC

CONSTANTS shop, blog, old, tgt

MCNames == {shop, blog, old}
MCRank == shop :> 1 @@ blog :> 2 @@ old :> 3

By(r, who) == [to |-> r.to, path |-> r.path, cert |-> r.cert, aliases |-> r.aliases, by |-> who]
Disk(own, hand) ==
  [f \in Files |-> IF f = Vhost(shop) THEN own ELSE IF f = <<"hand", old>> THEN hand ELSE NoFile]

ByHand == By(Route(tgt, NoTarget, Certbot(old), NoAliases), "other")

\* A route on https with an alias on the same certificate authority's, and a
\* vhost by hand on certbot's.
MCBusy == Disk(By(Route(tgt, NoTarget, Own(shop), blog :> Own(blog)), "croft"), ByHand)

\* A route on https whose alias waits for its DNS.
MCWaiting == Disk(By(Route(tgt, NoTarget, Own(shop), blog :> NoCert), "croft"), NoFile)

\* Only the vhost by hand.
MCFresh == Disk(NoFile, ByHand)

\* A vhost that was taken over and still reads certbot's certificate, and one by
\* hand that reads the same.
MCWorld ==
  [f \in Files |-> CASE f = Vhost(shop) -> By(Route(tgt, NoTarget, Certbot(old), NoAliases), "croft")
                      [] f = <<"hand", old>> -> ByHand
                      [] OTHER -> NoFile]
================================================================================
