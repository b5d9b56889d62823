------------------------- MODULE MCDocumentationStore -------------------------
(* Two topic files and a user file, any of which may list the shared alias. *)
(* The topics orders and .orders share a slug, and so a file; orders.dlq    *)
(* and the user have none of their own.                                     *)
EXTENDS DocumentationStore

TopicNames == {"orders", ".orders", "orders.dlq"}
TopicFiles == {"topics/orders", "topics/shared"}
AllNames == {"orders", "orders.dlq", "User:orders"}
AllFiles == TopicFiles \cup {"users/shared"}
Aliases == {"orders*"}

KindsOf(xs) ==
  [x \in xs |-> IF x \in {"User:orders", "users/shared"} THEN "user" ELSE "topic"]
OwnOf(names) ==
  [n \in names |-> IF n \in {"orders", ".orders"} THEN "topics/orders" ELSE NoFile]
GlobsOf(names) == Aliases \X (names \ {".orders"})

KindOfTopics == KindsOf(TopicNames \cup TopicFiles)
OwnOfTopics == OwnOf(TopicNames)
GlobsOfTopics == GlobsOf(TopicNames)

KindOfAll == KindsOf(AllNames \cup AllFiles)
OwnOfAll == OwnOf(AllNames)
GlobsOfAll == GlobsOf(AllNames)

Ranks ==
  [f \in File |-> CASE f = "topics/orders" -> 1 [] f = "topics/shared" -> 2 [] f = "users/shared" -> 3]
==============================================================================
