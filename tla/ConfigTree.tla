----------------------------- MODULE ConfigTree -----------------------------
(***************************************************************************)
(* Loader.LoadInto: the folders of the contexts are read one after         *)
(* another, decoded to trees, merged, and the tree is bound to the fields  *)
(* of a struct.                                                            *)
(*                                                                         *)
(* A name is a pair: what remains of it without case and separators, and   *)
(* its spelling, a number in the order of the strings.  A path has one or  *)
(* two names.  The schema lists the leaf fields of the struct; a field     *)
(* with a path of two belongs to a section: a struct, or a pointer to one  *)
(* whose fields are zero while it is nil.                                  *)
(***************************************************************************)
EXTENDS Naturals, FiniteSetsExt, Functions, Sequences

CONSTANTS
  Contents,   \* what a folder may hold: path -> text
  Schema,     \* field path -> kind, default, required, pointer section
  Numbers,    \* texts that parse as an int
  NoText,     \* the field has no default
  Rejected,   \* the fields and values that Validate refuses
  MaxLoads,   \* bound: calls of LoadInto with the same destination
  MaxWrites   \* bound: writes to Consul during them

VARIABLES
  contexts,  \* Loader.Contexts, see ContextsOf
  store,     \* what each folder holds
  seen,      \* the folders as the current load has read them
  merged,    \* the tree merged so far
  dst,       \* the destination struct
  before,    \* the destination when the load began
  outcome,   \* idle, reading, ok, invalid or unreadable
  loads, writes

vars == <<contexts, store, seen, merged, dst, before, outcome, loads, writes>>

IsName(n) == n = <<n[1], n[2]>> /\ n[2] \in Nat
IsPath(p) == (p = <<p[1]>> \/ p = <<p[1], p[2]>>) /\ \A i \in DOMAIN p : IsName(p[i])

\* Folders hold texts at paths, and only a field of a section can be in one
\* that is behind a pointer.
DataOK ==
  /\ \A pairs \in Contents : \A p \in DOMAIN pairs : IsPath(p)
  /\ \A f \in DOMAIN Schema : IsPath(f) /\ (Schema[f].pointer => Len(f) = 2)

Zero(f) == IF Schema[f].kind = "int" THEN "0" ELSE ""

\* Loader.Contexts: the shared folders first, then those of the name, each
\* followed by those of the profiles.
ContextsOf(name, profiles) ==
  LET Folders(n) == <<<<n>>>> \o [i \in DOMAIN profiles |-> <<n, profiles[i]>>]
  IN  Folders("application")
        \o (IF name \in {"", "application"} THEN <<>> ELSE Folders(name))

-----------------------------------------------------------------------------
(***************************************************************************)
(* Trees: names to leaves and folders.                                     *)
(***************************************************************************)

Leaf(text)   == [folder |-> FALSE, text |-> text]
Folder(tree) == [folder |-> TRUE, tree |-> tree]
Empty        == <<>>

\* A key that is both a value and a folder is refused.
Conflicting(pairs) ==
  \E p, q \in DOMAIN pairs : Len(p) = 1 /\ Len(q) = 2 /\ p[1] = q[1]

\* Loader.decode, for one key per setting.
Decode(pairs) ==
  [k \in {p[1] : p \in DOMAIN pairs} |->
     IF <<k>> \in DOMAIN pairs THEN Leaf(pairs[<<k>>])
     ELSE Folder([l \in {p[2] : p \in {p \in DOMAIN pairs : p[1] = k}} |-> pairs[<<k, l>>]])]

\* The entries of new, and those of old whose name is not among them.
Over(new, old) ==
  [k \in DOMAIN old \union DOMAIN new |-> IF k \in DOMAIN new THEN new[k] ELSE old[k]]

\* Variant of Merge that replaces whole folders.
MergeShallow(old, new) == Over(new, old)

\* merge: folders are merged name by name, anything else is replaced.
Merge(old, new) ==
  [k \in DOMAIN old \union DOMAIN new |->
     IF k \notin DOMAIN new THEN old[k]
     ELSE IF k \in DOMAIN old /\ old[k].folder /\ new[k].folder
          THEN Folder(Over(new[k].tree, old[k].tree))
     ELSE new[k]]

-----------------------------------------------------------------------------
(***************************************************************************)
(* Binding.                                                                *)
(***************************************************************************)

SameKey(a, b) == a[1] = b[1]
Missing == <<>>

\* lookup: the exact name, or the smallest spelling of it.
Lookup(tree, name) ==
  LET alike == {k \in DOMAIN tree : SameKey(k, name)}
  IN  IF name \in alike THEN name
      ELSE IF alike = {} THEN Missing
      ELSE CHOOSE k \in alike : \A l \in alike : k[2] <= l[2]

Good(value) == [error |-> FALSE, value |-> value]
Fail        == [error |-> TRUE]

\* setScalar
Convert(spec, text) ==
  IF spec.kind = "int" /\ text \notin Numbers THEN Fail ELSE Good(text)

\* A field without a key: its default, an error, or what it already holds. A
\* pointer section that is there is bound into a new struct.
Absent(f, spec) ==
  IF spec.default # NoText THEN Convert(spec, spec.default)
  ELSE IF spec.required THEN Fail
  ELSE Good(IF spec.pointer THEN Zero(f) ELSE dst[f])

\* bindStruct and assign, for the field in the tree of its section.
BindIn(f, spec, tree) ==
  LET key == Lookup(tree, f[Len(f)])
  IN  IF key = Missing THEN Absent(f, spec)
      ELSE IF Len(f) = 2 THEN Convert(spec, tree[key])
      ELSE IF tree[key].folder THEN Fail
      ELSE Convert(spec, tree[key].text)

\* A section that is missing still gets its defaults, unless it is a pointer.
BindField(f, tree) ==
  LET spec == Schema[f]
      section == Lookup(tree, f[1])
  IN  IF Len(f) = 1 THEN BindIn(f, spec, tree)
      ELSE IF section = Missing
           THEN IF spec.pointer THEN Good(dst[f]) ELSE BindIn(f, spec, Empty)
      ELSE IF ~tree[section].folder THEN Fail
      ELSE BindIn(f, spec, tree[section].tree)

-----------------------------------------------------------------------------

\* A new Loader.
Fresh ==
  /\ seen = <<>>
  /\ merged = Empty
  /\ dst = [f \in DOMAIN Schema |-> Zero(f)]
  /\ before = dst
  /\ outcome = "idle"
  /\ loads = 0
  /\ writes = 0

LoadBegins ==
  /\ outcome # "reading"
  /\ loads < MaxLoads
  /\ loads' = loads + 1
  /\ seen' = <<>>
  /\ merged' = Empty
  /\ before' = dst
  /\ outcome' = "reading"
  /\ UNCHANGED <<contexts, store, dst, writes>>

\* One request of Loader.load.
ReadFolder ==
  /\ outcome = "reading"
  /\ Len(seen) < Len(contexts)
  /\ LET pairs == store[contexts[Len(seen) + 1]]
     IN  /\ seen' = Append(seen, pairs)
         /\ IF Conflicting(pairs)
            THEN outcome' = "invalid" /\ UNCHANGED merged
            ELSE merged' = Merge(merged, Decode(pairs)) /\ UNCHANGED outcome
  /\ UNCHANGED <<contexts, store, dst, before, loads, writes>>

ReadFails ==
  /\ outcome = "reading"
  /\ Len(seen) < Len(contexts)
  /\ outcome' = "unreadable"
  /\ UNCHANGED <<contexts, store, seen, merged, dst, before, loads, writes>>

\* What bound makes of the destination: a field with an error keeps its value,
\* and a pointer section with one is not replaced.
Assign(bound) ==
  LET Kept(f) == \E g \in DOMAIN Schema :
                   /\ bound[g].error
                   /\ g = f \/ (Schema[f].pointer /\ Schema[g].pointer /\ g[1] = f[1])
  IN  [f \in DOMAIN Schema |-> IF Kept(f) THEN dst[f] ELSE bound[f].value]

\* Every field is bound, also after another has failed, and Validate is called
\* if none has.
BindTree ==
  /\ outcome = "reading"
  /\ Len(seen) = Len(contexts)
  /\ LET bound == [f \in DOMAIN Schema |-> BindField(f, merged)]
     IN  /\ dst' = Assign(bound)
         /\ outcome' = IF \E f \in DOMAIN Schema : bound[f].error \/ <<f, dst'[f]>> \in Rejected
                       THEN "invalid" ELSE "ok"
  /\ UNCHANGED <<contexts, store, seen, merged, before, loads, writes>>

\* Somebody writes a folder, also between the reads of a load.
Write(c) ==
  /\ writes < MaxWrites
  /\ writes' = writes + 1
  /\ \E pairs \in Contents \ {store[c]} : store' = [store EXCEPT ![c] = pairs]
  /\ UNCHANGED <<contexts, seen, merged, dst, before, outcome, loads>>

Next ==
  \/ LoadBegins \/ ReadFolder \/ ReadFails \/ BindTree
  \/ \E c \in Range(contexts) : Write(c)

-----------------------------------------------------------------------------
(***************************************************************************)
(* Properties.                                                             *)
(***************************************************************************)

\* Type correctness of every variable, within the named bounds.
TypeOK ==
  /\ store \in [Range(contexts) -> Contents]
  /\ Len(seen) <= Len(contexts)
  /\ Range(seen) \subseteq Contents
  /\ DOMAIN dst = DOMAIN Schema /\ DOMAIN before = DOMAIN Schema
  /\ outcome \in {"idle", "reading", "ok", "invalid", "unreadable"}
  /\ loads \in 0..MaxLoads
  /\ writes \in 0..MaxWrites

Read == UNION {DOMAIN seen[i] : i \in DOMAIN seen}

SectionRead(f) == {p \in Read : SameKey(p[1], f[1])}

PathsOf(f) ==
  {p \in Read : Len(p) = Len(f) /\ \A j \in DOMAIN f : SameKey(p[j], f[j])}

\* The folders read spell the field, and the section it is in, in one way.
SpelledAlike(f) ==
  /\ \A p, q \in SectionRead(f) : p[1] = q[1]
  /\ \A p, q \in PathsOf(f) : p = q

\* The folders read that give the field a value which no later folder
\* replaces with a value for the whole section.
Speakers(f) ==
  {i \in DOMAIN seen :
     /\ PathsOf(f) \intersect DOMAIN seen[i] # {}
     /\ \A j \in DOMAIN seen : j > i =>
          ~\E p \in DOMAIN seen[j] : Len(p) < Len(f) /\ SameKey(p[1], f[1])}

\* What a field is to hold after a load: the value of the last context that gives
\* it one, of those the load has read; otherwise its default, or else what it
\* held before. An optional section is a new one if any context mentions it and
\* untouched otherwise.
Due(f) ==
  IF Speakers(f) # {} THEN seen[Max(Speakers(f))][CHOOSE p \in PathsOf(f) : TRUE]
  ELSE IF Schema[f].pointer /\ SectionRead(f) = {} THEN before[f]
  ELSE IF Schema[f].default # NoText THEN Schema[f].default
  ELSE IF Schema[f].pointer THEN Zero(f) ELSE before[f]

\* The last context that gives a field a value decides it, after every load that
\* succeeds, for fields that the folders spell alike.
HighestContextWins ==
  outcome = "ok" => \A f \in DOMAIN Schema : SpelledAlike(f) => dst[f] = Due(f)

=============================================================================
