----------------------------- MODULE Namespaces -----------------------------
(***************************************************************************)
(* How the types of a package become namespaces of targets (internal/      *)
(* parser: breadcrumbs, isNS and Targets.addType).  A type is a root, is   *)
(* based on another type of the package, or is no namespace at all; the    *)
(* parser sees a base only within the file of the type.  addType joins     *)
(* the incomplete trails, ranging over a map.                              *)
(***************************************************************************)
EXTENDS FiniteSets, SequencesExt

CONSTANT Type  \* the named types of a package

(* "root" and "none" stand for what is no type of the package.             *)
ASSUME TypeAssumption == IsFiniteSet(Type) /\ Type \cap {"root", "none"} = {}

(* base[t]: what the type t is declared as; file[t]: the file it is in;    *)
(* exported: the types generated code can name.                            *)
Package == [base : [Type -> Type \cup {"root", "none"}], file : [Type -> {1, 2}],
            exported : SUBSET Type]

NotNamespace == [kind |-> "none"]
Complete(trail) == [kind |-> "complete", trail |-> trail]
Incomplete(rel, trail) == [kind |-> "incomplete", rel |-> rel, trail |-> trail]

Extend(crumbs, t) ==
  IF crumbs.kind = "none" THEN crumbs
  ELSE [crumbs EXCEPT !.trail = Append(@, t)]

-----------------------------------------------------------------------------
(* The trail of each type by itself: the bases in its own file, up to a    *)
(* root or to a base in another file.  A cycle is no namespace.            *)
Breadcrumbs(pkg, type) ==
  LET isNS[prev \in SUBSET Type] == [t \in Type |->
        LET base == pkg.base[t]
        IN IF base = "root" THEN Complete(<<t>>)
           ELSE IF base = "none" THEN NotNamespace
           ELSE IF pkg.file[base] # pkg.file[t] THEN Incomplete(base, <<t>>)
           ELSE IF base \in prev THEN NotNamespace
           ELSE Extend(isNS[prev \cup {base}][base], t)]
  IN isNS[{type}][type]

(* The loop's state: the complete trails, the incomplete types by the type *)
(* they extend, the keys this pass has still to see, how many keys there   *)
(* were before it, and the types whose methods were added.                 *)
FirstPass(pkg) ==
  LET crumbs   == [t \in Type |-> Breadcrumbs(pkg, t)]
      complete == {t \in Type : crumbs[t].kind = "complete"}
      waiting  == {t \in Type : crumbs[t].kind = "incomplete"}
      rels     == {crumbs[t].rel : t \in waiting}
  IN [complete |-> [t \in complete |-> crumbs[t].trail],
      inc      |-> [r \in rels |-> {<<t, crumbs[t].trail>> : t \in
                                      {w \in waiting : crumbs[w].rel = r}}],
      todo     |-> rels, prev |-> Cardinality(rels),
      added    |-> complete \cap pkg.exported, done |-> rels = {}]

-----------------------------------------------------------------------------
(* Variants with one plausible bug each, for the mutant runs.              *)

NextPassOnce(st) == [st EXCEPT !.done = TRUE]

NextPassUntilEmpty(st) ==
  LET cur == Cardinality(DOMAIN st.inc)
  IN [st EXCEPT !.todo = DOMAIN st.inc, !.prev = cur, !.done = (cur = 0)]

-----------------------------------------------------------------------------
(* The body of the loop, for one key of the map: its types complete the    *)
(* trail of the type they extend, if that is known by now.                 *)
Visit(pkg, st, rel) ==
  LET types == {e[1] : e \in st.inc[rel]}
      trail(t) == (CHOOSE e \in st.inc[rel] : e[1] = t)[2]
  IN IF rel \notin DOMAIN st.complete THEN [st EXCEPT !.todo = @ \ {rel}]
     ELSE [st EXCEPT
       !.complete = [t \in DOMAIN @ \cup types |->
                       IF t \in types THEN @[rel] \o trail(t) ELSE @[t]],
       !.inc  = [r \in DOMAIN @ \ {rel} |-> @[r]],
       !.todo = @ \ {rel},
       !.added = @ \cup (types \cap pkg.exported)]

(* The end of a pass: the loop goes on while it makes progress.            *)
NextPass(st) ==
  LET cur == Cardinality(DOMAIN st.inc)
  IN IF cur = 0 \/ cur = st.prev THEN [st EXCEPT !.done = TRUE]
     ELSE [st EXCEPT !.todo = DOMAIN st.inc, !.prev = cur]

-----------------------------------------------------------------------------
(* The trails a package declares: from a root, each type based on the one  *)
(* before it, whatever the files.                                          *)
Trails(pkg) ==
  {s \in UNION {[1..n -> Type] : n \in 1..Cardinality(Type)} :
     /\ pkg.base[s[1]] = "root"
     /\ \A i \in 2..Len(s) : pkg.base[s[i]] = s[i - 1]}
=============================================================================
