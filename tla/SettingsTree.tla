--------------------------- MODULE SettingsTree ---------------------------
(* Settings of crates/ma-harness-settings/src/lib.rs: a tree of mappings    *)
(* changed by dotted keys and by merging layers (the file under the         *)
(* environment), beside what a reader takes it for: a set of leaves and a   *)
(* set of mappings, each known by its whole key.                            *)
EXTENDS Naturals, Sequences, SequencesExt, FiniteSets

CONSTANTS Key,          \* parts of a key
          Scalar,       \* values that are not mappings
          Depth,        \* longest key
          NoValue

ASSUME TreeAssumption ==
    Depth \in Nat \ {0} /\ "none" # NoValue /\ {"none", NoValue} \cap Scalar = {}

VARIABLES root,         \* a mapping: [subset of Key -> a node]
          leaves,       \* reference: [keys of the leaves -> Scalar]
          mappings      \* reference: keys of the mappings

treeVars == <<root, leaves, mappings>>

EmptyMapping == [k \in {} |-> NoValue]
ScalarNode(v) == [scalar |-> v, map |-> EmptyMapping]
MapNode(m) == [scalar |-> NoValue, map |-> m]
IsMapping(n) == n.scalar = NoValue
Put(m, k, n) == [x \in DOMAIN m \cup {k} |-> IF x = k THEN n ELSE m[x]]

\* split_key: parts, none for an empty key.
Path == UNION {[1..n -> Key] : n \in 1..Depth}

\* Every mapping of at most d levels.
Mappings[d \in 1..Depth] ==
    UNION {[ks -> {ScalarNode(v) : v \in Scalar}
                  \cup {MapNode(m) : m \in IF d = 1 THEN {EmptyMapping} ELSE Mappings[d - 1]}]
           : ks \in SUBSET Key}

\* get: the walk ends where a part is missing or what is above is no mapping.
None == ScalarNode("none")
Child(n, k) == IF IsMapping(n) /\ k \in DOMAIN n.map THEN n.map[k] ELSE None
Get(m, p) ==
    LET at[i \in 0..Len(p)] ==
            IF i = 0 THEN MapNode(m)
            ELSE Child(at[i - 1], p[i])
    IN  at[Len(p)]

\* The mapping at a path; an empty one takes the place of anything else.
Under(m, p) == IF IsMapping(Get(m, p)) THEN Get(m, p).map ELSE EmptyMapping

\* set: what is in the way of the path becomes an empty mapping.
SetKey(m, p, n) ==
    LET from[i \in 1..Len(p)] ==
            Put(Under(m, SubSeq(p, 1, i - 1)), p[i],
                IF i = Len(p) THEN n ELSE MapNode(from[i + 1]))
    IN  from[1]

\* unset: parents stay, also when they are empty now.
Drop(m, k) == [x \in DOMAIN m \ {k} |-> m[x]]
Unset(m, p) ==
    CASE Len(p) = 1 -> Drop(m, p[1])
      [] Len(p) > 1 /\ IsMapping(Get(m, Front(p))) ->
            SetKey(m, Front(p), MapNode(Drop(Under(m, Front(p)), Last(p))))
      [] OTHER -> m

\* collect_keys, without the order.
KeysOf(m) ==
    LET below[p \in Path \cup {<< >>}] ==
            UNION {LET q == Append(p, k)
                   IN  IF IsMapping(Get(m, q)) THEN below[q] ELSE {q} : k \in DOMAIN Under(m, p)}
    IN  below[<< >>]

\* merge_mapping: two mappings are merged, everything else is replaced.
MergeMapping(t, s) ==
    LET merged[p \in Path \cup {<< >>}] ==
            [k \in DOMAIN Under(t, p) \cup DOMAIN Under(s, p) |->
                LET q == Append(p, k)
                IN  IF Get(s, q) = None THEN Get(t, q)
                    ELSE IF IsMapping(Get(t, q)) /\ IsMapping(Get(s, q)) THEN MapNode(merged[q])
                    ELSE Get(s, q)]
    IN  merged[<< >>]

\* EnvSettingsStore::load: one set per variable, here two, in the order the
\* system lists them; an empty key is skipped.
EnvLoaded(a, b) ==
    SetKey(SetKey(EmptyMapping, a.key, ScalarNode(a.value)), b.key, ScalarNode(b.value))

\* LayeredSettingsStore::load: later layers over earlier ones, here the two
\* of ma_harness_settings.
Layered(file, env) == MergeMapping(MergeMapping(EmptyMapping, file), env)

--------------------------------------------------------------------------
(* The reference.                                                          *)

Below(p, q) == IsPrefix(p, q)
LeavesOf(m) == [p \in {q \in Path : Get(m, q).scalar \in Scalar} |-> Get(m, p).scalar]
MappingsOf(m) == {p \in Path : IsMapping(Get(m, p))}
Over(f, g) == [p \in DOMAIN f \cup DOMAIN g |-> IF p \in DOMAIN f THEN f[p] ELSE g[p]]
Without(f, gone) == [p \in DOMAIN f \ gone |-> f[p]]

TreeInit ==
    /\ root = EmptyMapping
    /\ leaves = [p \in {} |-> NoValue] /\ mappings = {}

\* Setting a leaf takes away what is below it and the leaves above it.
Set(p, v) ==
    /\ root' = SetKey(root, p, ScalarNode(v))
    /\ leaves' = Over([q \in {p} |-> v],
                      Without(leaves, {q \in Path : Below(p, q) \/ Below(q, p)}))
    /\ mappings' = {q \in mappings : ~ Below(p, q)} \cup {q \in Path : Below(q, p) /\ q # p}

UnsetKey(p) ==
    /\ root' = Unset(root, p)
    /\ leaves' = Without(leaves, {q \in Path : Below(p, q)})
    /\ mappings' = {q \in mappings : ~ Below(p, q)}

\* A leaf stays unless the other has a leaf at or above it or a mapping at it.
ReferenceMerge(m) ==
    LET new == LeavesOf(m)
        maps == MappingsOf(m)
        replaced == {q \in Path : \E p \in DOMAIN new : Below(p, q)}
    IN  /\ leaves' = Over(new, Without(leaves, maps \cup replaced))
        /\ mappings' = (mappings \ replaced) \cup maps

Merge(m) == root' = MergeMapping(root, m) /\ ReferenceMerge(m)

\* What two variables make, and the layers of ma_harness_settings: the file,
\* here whatever was set so far, and the environment over it.
Environments == {EnvLoaded(a, b) : a, b \in [key : Path, value : Scalar]}
LoadLayers(env) == root' = Layered(root, env) /\ ReferenceMerge(env)

TreeNext ==
    \/ \E p \in Path : UnsetKey(p) \/ \E v \in Scalar : Set(p, v)
    \/ \E m \in Mappings[Depth] : Merge(m)
    \/ \E env \in Environments : LoadLayers(env)

\* After any number of sets, unsets, merges and layered loads in any order,
\* get and keys show what the whole keys say: no leaf has anything below it,
\* nothing outside the changed key is lost (lib.rs:186-352, 613-630, 938-959).
TreeIsItsKeys ==
    /\ KeysOf(root) = DOMAIN leaves
    /\ \A p \in Path : Get(root, p).scalar = IF p \in DOMAIN leaves THEN leaves[p]
                                             ELSE IF p \in mappings THEN NoValue ELSE "none"
===========================================================================
