------------------------------ MODULE MCArchive ------------------------------
EXTENDS Reading, TLC

CONSTANTS p, q, again, gone, o1, o2, o3, up, uq, um, h, k

\* Two pages with the same body; the first is captured again with another body,
\* and then as a redirect to the second.
Url == p :> up @@ q :> uq @@ again :> up @@ gone :> up
Hash == p :> h @@ q :> h @@ again :> k @@ gone :> None
Sorted == <<p, gone, again, q>>

\* In the older walk um redirects to up and up to uq, a page that is newer than
\* the live walk's; what it has for up is as old as the first page.
Older == um :> [of |-> o1, body |-> h] @@ up :> [of |-> o2, body |-> h]
         @@ uq :> [of |-> o3, body |-> k]
Walks == {<<"live", "old">>, <<"old">>, <<>>}
Times == o1 :> 1 @@ o2 :> 2 @@ o3 :> 5 @@ p :> 2 @@ q :> 2 @@ again :> 3 @@ gone :> 4
Target == p :> None @@ q :> None @@ again :> None @@ gone :> uq
          @@ o1 :> up @@ o2 :> uq @@ o3 :> None
==============================================================================
