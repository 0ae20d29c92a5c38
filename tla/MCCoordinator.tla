---------------------------- MODULE MCCoordinator ----------------------------
EXTENDS CoordinatorProperties, TLC

CONSTANTS a, b, c, d, r, w1, l1, l2, h1

NoRedirects == [u \in URLs |-> None]
Identity == [u \in URLs |-> u]

\* One fetcher with a lane per host: one host, two, or a and b on the same.
OneFetcher == [w \in Workers |-> 1]
SingleLane == [w \in Workers |-> (0 :> [u \in URLs |-> l1])]
TwoLanes == [w \in Workers |-> (0 :> (a :> l1 @@ b :> l2))]
TwoHosts == [w \in Workers |-> (0 :> (a :> l1 @@ b :> l1 @@ c :> l2))]

\* Two fetchers on a single host; neither accepts a command for c.
TwoFetchers == [w \in Workers |-> 2]
OneHostNotC ==
  [w \in Workers |-> (0 :> [u \in URLs |-> IF u = c THEN None ELSE l1]
                      @@ 1 :> [u \in URLs |-> IF u = c THEN None ELSE l2])]

SeedA == <<a>>
SeedAB == <<a, b>>
SeedAC == <<a, c>>
NoLinks == [u \in URLs |-> {}]
\* Two pages that link to each other.
Pair == (a :> {b} @@ b :> {a})
\* Page a links to b.
OneWay == (a :> {b} @@ b :> {})
\* Pages a and c, on two hosts, both link to b.
Meet == (a :> {b} @@ b :> {} @@ c :> {b})
\* Three pages that link to each other.
Mesh == (a :> {b, c} @@ b :> {a, c} @@ c :> {b})

\* r is a way to write a that NormalizeURL changes.  Page c redirects to d, which
\* nobody requests; d links to r and b, that is to a and b, which redirect to
\* each other, and to itself and c.
RawA == [u \in URLs |-> IF u = r THEN a ELSE u]
LinksToLoop == [u \in URLs |-> IF u = d THEN {r, b, c, d} ELSE {}]
Loop == (a :> b @@ b :> a @@ r :> b @@ c :> d @@ d :> None)
\* The loop is first entered by a seed that is not normalized, when the store
\* knows none of its pages.
SeedRC == <<r, c>>
=============================================================================
