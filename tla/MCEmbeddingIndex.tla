--------------------------- MODULE MCEmbeddingIndex ---------------------------
(* Small instances of EmbeddingIndex for TLC: two handlers in one process,   *)
(* one in another, and one in a process without an API key.                  *)
EXTENDS EmbeddingIndex

CONSTANTS post, old, new, empty, p1, p2, p3, h1, h2, h3, h4

TwoOneAndOne == [h \in Handlers |-> IF h = h4 THEN p3 ELSE IF h = h3 THEN p2 ELSE p1]
=============================================================================
