---------------------------- MODULE TargetConfig ----------------------------
(***************************************************************************)
(* Which block of the gomake.yaml files a target receives: the resolution  *)
(* of internal/cli/config_file.go.                                         *)
(*                                                                         *)
(* A tree of configuration is the set of its paths that are mappings and   *)
(* the set of those that are anything else; values are left out.  Three    *)
(* import paths are told apart: the makefile's own package, another        *)
(* package of its module, and a package outside.  A block is named by the  *)
(* file and the node it comes from and by its keys.                        *)
(***************************************************************************)
EXTENDS Naturals, SequencesExt

CONSTANT Name  \* names of namespaces, targets and settings

NoBlock == [found |-> FALSE]
Block(node, keys) == [found |-> TRUE, node |-> node, keys |-> keys]
Delivered(level, block) == [level |-> level, block |-> block]
Nothing == Delivered("none", NoBlock)

-----------------------------------------------------------------------------
(* Variants with one plausible bug each, for the mutant runs.              *)

SettingKeysUnprefixed(node, tree, known) ==
  {k \in Name : Append(node, k) \in (tree.maps \cup tree.leaves)
                /\ <<k>> \notin known}

-----------------------------------------------------------------------------
(* The import path of the makefile's package: none outside of a module.    *)
LocalImportPath(inModule) == IF inModule THEN "main" ELSE ""

TargetImp(tgt, localImp) == IF tgt.spec # "" THEN tgt.spec ELSE localImp

ImpInModule(imp) == imp \in {"main", "sub"}

(* Every node on the way to a target of the package, the target included.  *)
KnownNodes(tgts, localImp, imp) ==
  UNION {Prefixes(tgt.name) \ {<<>>} :
           tgt \in {t \in tgts : TargetImp(t, localImp) = imp}}

SettingKeys(node, tree, known) ==
  {k \in Name : Append(node, k) \in (tree.maps \cup tree.leaves) \ known}

(* Down the target's path as far as there are mappings, and back up to the *)
(* first node with a setting.                                              *)
ResolveTargetBlock(tree, path, known) ==
  LET node(i) == SubSeq(path, 1, i)
      descend[i \in 0..Len(path)] ==
        IF i < Len(path) /\ node(i + 1) \in tree.maps THEN descend[i + 1] ELSE i
      back[i \in 0..Len(path)] ==
        LET keys == SettingKeys(node(i), tree, known)
        IN IF keys # {} THEN Block(node(i), keys)
           ELSE IF i = 0 THEN NoBlock ELSE back[i - 1]
  IN back[descend[0]]

(* The trees of a file, by import path; one that is no mapping is as good  *)
(* as none.                                                                *)
BlockOf(file, imp, path, known) ==
  IF imp \in DOMAIN file THEN ResolveTargetBlock(file[imp], path, known)
  ELSE NoBlock

(* The project file first; the user file only for packages outside of the  *)
(* module.                                                                 *)
ResolveDelivered(tgt, inModule, user, project, tgts) ==
  LET localImp == LocalImportPath(inModule)
      imp   == TargetImp(tgt, localImp)
      known == KnownNodes(tgts, localImp, imp)
      ours   == BlockOf(project, imp, tgt.name, known)
      theirs == BlockOf(user, imp, tgt.name, known)
  IN IF ours.found THEN Delivered("project", ours)
     ELSE IF inModule /\ ImpInModule(imp) THEN Nothing
     ELSE IF theirs.found THEN Delivered("user", theirs)
     ELSE Nothing

-----------------------------------------------------------------------------
(* What the documentation promises of a tree, without the walk.            *)

(* The node of another target or namespace of the package.                 *)
Nested(tgts, tgt, node) ==
  \E t \in tgts : t.spec = tgt.spec /\ IsPrefix(node, t.name)

(* A setting directly at a node on the target's path.                      *)
HasSetting(tree, tgts, tgt, node) ==
  /\ node \in tree.maps /\ IsPrefix(node, tgt.name)
  /\ \E k \in Name : /\ Append(node, k) \in tree.maps \cup tree.leaves
                     /\ ~Nested(tgts, tgt, Append(node, k))

NearestBlock(block, tree, tgts, tgt) ==
  /\ HasSetting(tree, tgts, tgt, block.node)
  /\ \A node \in tree.maps : HasSetting(tree, tgts, tgt, node) =>
       IsPrefix(node, block.node)
  /\ block.keys = {k \in Name :
       /\ Append(block.node, k) \in tree.maps \cup tree.leaves
       /\ ~Nested(tgts, tgt, Append(block.node, k))}
=============================================================================
