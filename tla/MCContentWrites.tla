--------------------------- MODULE MCContentWrites ----------------------------
(* A small instance of ContentWrites for TLC: a governed singleton type and *)
(* a collection, and the calls whose checks and modes differ.               *)
EXTENDS ContentWrites

CONSTANTS a, b, n1, n2, n3, n4, home, page, r1, r2

On(item, type, status) == [item |-> item, type |-> type, status |-> status]
To(door, entries) == [door |-> door, entries |-> entries]

Creations ==
    {To(RestCreate, <<On(None, home, s)>>) : s \in {None, "published"}}
    \cup {To(GraphqlCreateBatch(TRUE), <<On(None, page, "published"), On(None, home, None)>>),
          To(RestCreateBatch(FALSE), <<On(None, home, "published"), On(None, home, None)>>),
          To(PublicCreate, <<On(None, home, "draft")>>),
          To(FormSubmit, <<On(None, page, "draft")>>)}

Updates ==
    {To(GraphqlUpdate, <<On(a, None, s)>>) : s \in {"published", "empty"}}
    \cup {To(PublicUpdate, <<On(a, None, None)>>),
          To(RestGlobal, <<On(None, home, None)>>),
          To(GraphqlGlobal, <<On(None, home, "empty")>>),
          To(GraphqlUpdateBatch(FALSE), <<On(a, None, None), On(b, home, "draft")>>),
          To(RestUpdateBatch(TRUE), <<On(a, page, None), On(b, home, None)>>),
          To(McpUpdateBatch(TRUE), <<On(b, page, "published"), On(a, None, None)>>)}

Deletions ==
    {To(GraphqlDeleteBatch(TRUE), <<On(b, None, None), On(a, None, None)>>),
     To(McpDeleteBatch(FALSE), <<On(b, None, None), On(a, None, None)>>)}

SmallCalls == Creations \cup Updates \cup Deletions
=============================================================================
