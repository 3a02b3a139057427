--------------------------- MODULE MCContentStore ---------------------------
(* ContentStore with two slugs of one collection, the second of which is the *)
(* name of a collection below it that can have a landing page.               *)
EXTENDS ContentStore, TLC

CONSTANTS root, docs, news, guides, landing

Slugs == {news, guides, landing}
Folders == {root, docs}
Collections == news :> root @@ guides :> root @@ landing :> docs
SlugNames == news :> "news" @@ guides :> "guides" @@ landing :> "index"
Parents == root :> None @@ docs :> root
Names == root :> "content" @@ docs :> "guides"
Paths == root :> <<>> @@ docs :> <<<<>>, "guides">>
Ranks == news :> 2 @@ guides :> 1 @@ landing :> 3

Exchange == Permutations(Request) \union Permutations(Process)
=============================================================================
