-------------------------------- MODULE Crawl --------------------------------
(***************************************************************************)
(* What a crawl promises to whoever reads its sitemaps, with all of its    *)
(* machinery hidden: URLs are requested; each resource handler records     *)
(* requested URLs, up to normalization; somebody takes a view of a record  *)
(* and publishes it later.  A crash drops the views and nothing else.      *)
(* Module Coordinator implements it.                                       *)
(***************************************************************************)
CONSTANTS URLs, Handlers, Publishers,
          Norm,        \* the spelling under which a URL is recorded
          None

VARIABLES requested,   \* the URLs of the request store
          recorded,    \* what each handler has recorded
          views,       \* a handler and its record, as each publisher read it
          published    \* the file of each handler, None before it is written

vars == <<requested, recorded, views, published>>

Recordable == {Norm[u] : u \in requested}

Init ==
  /\ requested = {}
  /\ recorded = [h \in Handlers |-> {}]
  /\ views = [p \in Publishers |-> None]
  /\ published = [h \in Handlers |-> None]

\* RequestStore.PutRequest
Request(u) ==
  /\ requested' = requested \cup {u}
  /\ UNCHANGED <<recorded, views, published>>

\* ResourceHandler.HandleResource
Record(h, u) ==
  /\ u \in Recordable
  /\ recorded' = [recorded EXCEPT ![h] = @ \cup {u}]
  /\ UNCHANGED <<requested, views, published>>

\* ResourceFinalizer.FinalizeResources reads the record ...
View(p, h) ==
  /\ views[p] = None
  /\ views' = [views EXCEPT ![p] = <<h, recorded[h]>>]
  /\ UNCHANGED <<requested, recorded, published>>

\* ... and writes what it read.
Publish(p) ==
  /\ views[p] # None
  /\ published' = [published EXCEPT ![views[p][1]] = views[p][2]]
  /\ views' = [views EXCEPT ![p] = None]
  /\ UNCHANGED <<requested, recorded>>

Crash ==
  /\ views' = [p \in Publishers |-> None]
  /\ UNCHANGED <<requested, recorded, published>>

Next ==
  \/ \E u \in URLs : Request(u)
  \/ \E h \in Handlers, u \in URLs : Record(h, u)
  \/ \E p \in Publishers : Publish(p) \/ \E h \in Handlers : View(p, h)
  \/ Crash

Spec == Init /\ [][Next]_vars

\* Whoever reads a published sitemap finds only URLs the crawl requested.
PublishedRequested ==
  \A h \in Handlers : published[h] # None => published[h] \subseteq Recordable
==============================================================================
