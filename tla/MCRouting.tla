------------------------------ MODULE MCRouting ------------------------------
(* Routing on a small instance, for the run ro_requests.  The paths are    *)
(* one of each kind, and one that names a blob and is refused.             *)
EXTENDS Routing, TLC

CONSTANTS r1, r2, p1, p2

AskedPaths == {<<"nginx", "manifests", "digest">>, <<"library", "nginx", "manifests", "tag">>,
               <<"nginx", "blobs", "digest">>, <<"nginx", "tags", "list">>,
               <<"a", "manifests", "b", "blobs", "digest">>}

FoundLists == {<<>>, <<p1, p2>>, <<p2>>}

\* Both projects hold the image, or one of them no more than its manifest.
FirstContents == {(p1 :> {"manifest", "blob"}) @@ (p2 :> {"manifest", "blob"}),
                  (p1 :> {"manifest"}) @@ (p2 :> {"blob"})}

\* The parser against the grammar <image>/(manifests|blobs)/<reference>, on
\* every path of up to five segments.
Segments == {"a", "", "manifests", "blobs", "tags", "list"}
ASSUME ParserAssumption ==
  \A n \in 0 .. 5 : \A p \in [1 .. n -> Segments] : UnderstoodAs(p) = parse_path(p).kind

=============================================================================
