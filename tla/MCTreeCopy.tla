----------------------------- MODULE MCTreeCopy -----------------------------
\* A directory with a file of three bytes, a link, and a directory with a file and an
\* empty directory.
EXTENDS TreeCopy, TLC

CONSTANTS root, f, link, d, g, e

MCSize == (root :> 0) @@ (f :> 3) @@ (link :> 0) @@ (d :> 0) @@ (g :> 2) @@ (e :> 0)
MCKind == (root :> "dir") @@ (f :> "file") @@ (link :> "other") @@ (d :> "dir") @@ (g :> "file")
          @@ (e :> "dir")
MCDir  == (root :> Nobody) @@ (f :> root) @@ (link :> root) @@ (d :> root) @@ (g :> d) @@ (e :> d)
=============================================================================
