----------------------------- MODULE MCGarfieldRun -----------------------------
(* Small instances of GarfieldRun for TLC. *)
EXTENDS GarfieldRun

Tree(paths, diff, untracked) ==
  [paths |-> paths, diff |-> diff, untracked |-> untracked]

GuideTree     == Tree({"docs/guide.md"}, "d1", "u1")
\* A repair that changes an API contract: two reviewers and verification.
ContractTree  == Tree({"docs/guide.md", "docs/openapi.yaml"}, "d2", "u1")
\* A repair that adds a path under .swamp/.
ProtectedTree == Tree({"docs/guide.md", ".swamp/x"}, "d2", "u1")
\* One that adds a .env file.
SecretTree    == Tree({"docs/guide.md", ".env"}, "d1", "u1")
\* GuideTree with other content in an untracked file.
ShadowTree    == Tree({"docs/guide.md"}, "d1", "u2")

RetryTrees     == {GuideTree, ContractTree, ShadowTree, SecretTree}
RepeatedTrees  == {GuideTree, ContractTree}
ProtectedTrees == {GuideTree, ProtectedTree}
ShadowTrees    == {GuideTree, ShadowTree}

\* A change of code, and a repair that changes an API contract and removes code:
\* one reviewer before it, three and verification after it.
CodeTree    == Tree({"src/store.go"}, "d1", "u1")
RemovalTree == Tree({"src/store.go", "src/openapi.yaml"}, "d2", "u1")
CodeTrees   == {CodeTree, RemovalTree}

SignalsBy(trees) ==
  [s \in {CaptureSnapshot(w) : w \in trees} |->
     [flags |-> (IF "docs/guide.md" \in s.paths THEN {"docs"} ELSE {"code"})
                  \cup (IF "docs/openapi.yaml" \in s.paths THEN {"contract", "interface"}
                                                           ELSE {})
                  \cup (IF "src/openapi.yaml" \in s.paths
                          THEN {"contract", "interface", "removal"} ELSE {}),
      size  |-> "small"]]

RetrySignals     == SignalsBy(RetryTrees)
RepeatedSignals  == SignalsBy(RepeatedTrees)
ProtectedSignals == SignalsBy(ProtectedTrees)
ShadowSignals    == SignalsBy(ShadowTrees)
CodeSignals      == SignalsBy(CodeTrees)

Finding(lens, concern) ==
  [lens |-> lens, path |-> "docs/guide.md", line |-> 1, concern |-> concern,
   severity |-> "high", cause |-> "introduced", grounded |-> TRUE]

OneFinding == {<<>>, <<Finding("behavior", "lost update")>>}

Protected == {".swamp/x"}
Secret    == {".env"}
================================================================================
