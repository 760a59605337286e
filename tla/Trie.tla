-------------------------------- MODULE Trie --------------------------------
(***************************************************************************)
(* The Merkle Patricia trie (trie/trie.go, trie/hasher.go, trie/proof.go): *)
(* one Trie object over its node store, driven by any sequence of updates, *)
(* lookups, hashings, commits and reloads, beside the map it stands for.   *)
(*                                                                         *)
(* An encoding is a record with the items of the RLP list, and its length  *)
(* is computed, since 32 bytes decide whether a node is inlined.  Keccak   *)
(* is injective: a hash is a record that wraps the encoding it is of.  A   *)
(* value is represented by its length in bytes, 0 being no value.          *)
(***************************************************************************)
EXTENDS Integers, Sequences, SequencesExt, FiniteSets, FiniteSetsExt, Functions

CONSTANTS
    Keys,            \* byte strings
    Values,          \* positive lengths
    Starts,          \* the maps a behaviour may begin with, [Keys -> Values \cup {0}]
    MaxOps           \* bound: operations in a behaviour

VARIABLES
    root, store,     \* Trie.root, Trie.store: the set of encodings put
    kv,              \* the map the trie stands for
    committed,       \* the pairs <<root hash, map>> committed so far
    ops

vars == <<root, store, kv, committed, ops>>

keyToNibbles(key) == FlattenSeq([i \in 1..Len(key) |-> <<key[i] \div 16, key[i] % 16>>]) \o <<16>>

nibblesToKey(nibbles) ==
    [i \in 1..(Len(SelectSeq(nibbles, LAMBDA n : n # 16)) \div 2) |->
        nibbles[2 * i - 1] * 16 + nibbles[2 * i]]

\* The slots of a branch that Keys can fill, out of seventeen.
Slots == UNION {Range(keyToNibbles(k)) : k \in Keys}

nilNode == [type |-> "nil"]
valueNode(v) == [type |-> "value", v |-> v]
hashOf(enc) == [type |-> "hash", of |-> enc]
newFlag == [hash |-> nilNode, dirty |-> TRUE, persisted |-> FALSE]
shortNode(key, value) == [type |-> "short", key |-> key, value |-> value, flags |-> newFlag]
fullNode(children) == [type |-> "full", children |-> children, flags |-> newFlag]

EmptyRoot == hashOf(nilNode)
NoChildren == [i \in Slots |-> nilNode]

hexPrefixEncode(key) ==
    LET nibbles == SelectSeq(key, LAMBDA n : n # 16)
        terminator == IF nibbles = key THEN 0 ELSE 1
        odd == Len(nibbles) % 2
        head == (2 * terminator + odd) * 16 + (IF odd = 1 THEN nibbles[1] ELSE 0)
    IN  <<head>> \o [i \in 1..(Len(nibbles) \div 2) |->
                        nibbles[2 * i - 1 + odd] * 16 + nibbles[2 * i + odd]]

hexPrefixDecode(b) ==
    LET flags == b[1] \div 16
    IN  (IF flags % 2 = 1 THEN <<b[1] % 16>> ELSE <<>>)
        \o FlattenSeq([i \in 1..(Len(b) - 1) |-> <<b[i + 1] \div 16, b[i + 1] % 16>>])
        \o (IF flags >= 2 THEN <<16>> ELSE <<>>)

\* Lengths of RLP strings and lists; one byte below 0x80 is its own encoding,
\* which holds for the one-byte values and for every path.
header(n) == IF n < 56 THEN 1 ELSE 2
stringLen(n) == IF n = 1 THEN 1 ELSE header(n) + n

RECURSIVE encLen(_)
encLen(enc) ==
    LET listLen(n) == header(n) + n
    IN  CASE enc.type = "nil" -> 1
          [] enc.type = "value" -> stringLen(enc.v)
          [] enc.type = "hash" -> stringLen(32)
          [] enc.type = "short" -> listLen(stringLen(Len(enc.path)) + encLen(enc.value))
          [] enc.type = "full" -> listLen(17 - Cardinality(Slots)
                                          + MapThenSumSet(LAMBDA i : encLen(enc.children[i]), Slots))

RECURSIVE encodeNode(_)
encodeNode(n) ==
    LET encodeChild(c) == IF c.type \in {"nil", "value", "hash"} THEN c
                          ELSE LET enc == encodeNode(c)
                               IN  IF encLen(enc) < 32 THEN enc ELSE hashOf(enc)
    IN  CASE n.type = "short" -> [type |-> "short", path |-> hexPrefixEncode(n.key),
                                  value |-> encodeChild(n.value)]
          [] n.type = "full" -> [type |-> "full",
                                 children |-> [i \in Slots |-> encodeChild(n.children[i])]]
          [] OTHER -> n

\* decodeNode, decodeShort, decodeFull, decodeRef: an inlined child is decoded
\* without a hash.
RECURSIVE decodeNode(_, _)
decodeNode(hash, enc) ==
    LET decodeRef(item) == IF item.type \in {"short", "full"} THEN decodeNode(nilNode, item) ELSE item
        flags == [hash |-> hash, dirty |-> FALSE, persisted |-> TRUE]
    IN  IF enc.type = "short"
        THEN [type |-> "short", key |-> hexPrefixDecode(enc.path),
              value |-> decodeRef(enc.value), flags |-> flags]
        ELSE [type |-> "full", children |-> [i \in Slots |-> decodeRef(enc.children[i])],
              flags |-> flags]

\* ErrMissingNode, as the node that could not be resolved.
Missing == [type |-> "missing"]
resolveHash(st, h) == IF h.of \in st THEN decodeNode(h, h.of) ELSE Missing
resolve(st, n) == IF n.type = "hash" THEN resolveHash(st, n) ELSE n

New(st, hash) == IF hash = EmptyRoot THEN nilNode ELSE resolveHash(st, hash)
-----------------------------------------------------------------------------
NotFound == 0
Error == -1
Drop(s, n) == SubSeq(s, n + 1, Len(s))
commonPrefixLen(a, b) == Max({i \in 0..Min({Len(a), Len(b)}) : SubSeq(a, 1, i) = SubSeq(b, 1, i)})
StartsWith(key, prefix) == commonPrefixLen(key, prefix) = Len(prefix)

\* The value at key, and n with the nodes read from the store in place.
RECURSIVE get(_, _, _)
get(st, n, key) ==
    CASE n.type = "nil" -> <<NotFound, n>>
      [] n.type = "missing" -> <<Error, n>>
      [] n.type = "value" -> <<n.v, n>>
      [] n.type = "short" ->
           IF ~StartsWith(key, n.key) THEN <<NotFound, n>>
           ELSE LET r == get(st, n.value, Drop(key, Len(n.key)))
                IN  <<r[1], [n EXCEPT !.value = r[2]]>>
      [] n.type = "full" ->
           LET r == get(st, n.children[key[1]], Tail(key))
           IN  <<r[1], [n EXCEPT !.children[key[1]] = r[2]]>>
      [] n.type = "hash" -> get(st, resolveHash(st, n), key)

Same(n) == [dirty |-> FALSE, n |-> n]
Changed(n) == [dirty |-> TRUE, n |-> n]
Failed == [dirty |-> FALSE, n |-> Missing]

\* A change r of a child becomes the change of its parent.
Within(r, n, Rebuilt(_)) == IF r = Failed THEN r ELSE IF r.dirty THEN Changed(Rebuilt(r.n)) ELSE Same(n)

RECURSIVE insert(_, _, _, _)
insert(st, n, key, value) ==
    IF key = <<>> THEN IF n = value THEN Same(n) ELSE Changed(value)
    ELSE CASE n.type = "short" ->
                LET match == commonPrefixLen(key, n.key)
                    below(path, v) == insert(st, nilNode, Drop(path, match + 1), v).n
                    branch == fullNode([NoChildren EXCEPT
                                  ![n.key[match + 1]] = below(n.key, n.value),
                                  ![key[match + 1]] = below(key, value)])
                IN  IF match = Len(n.key)
                    THEN Within(insert(st, n.value, Drop(key, match), value), n,
                                LAMBDA c : shortNode(n.key, c))
                    ELSE IF match = 0 THEN Changed(branch)
                    ELSE Changed(shortNode(SubSeq(key, 1, match), branch))
           [] n.type = "full" ->
                Within(insert(st, n.children[key[1]], Tail(key), value), n,
                       LAMBDA c : fullNode([n.children EXCEPT ![key[1]] = c]))
           [] n.type = "nil" -> Changed(shortNode(key, value))
           [] n.type = "hash" -> insert(st, resolveHash(st, n), key, value)
           [] n.type = "missing" -> Failed

\* A short node in front of child: two chained short nodes collapse into one.
\* (JoinNever is a variant with a fault.)
JoinNever(key, child) == shortNode(key, child)
Join(key, child) == IF child.type = "short" THEN shortNode(key \o child.key, child.value)
                    ELSE shortNode(key, child)

\* A branch after a deletion: with one entry left it becomes a short node.
Degenerate(st, children) ==
    LET used == {i \in Slots : children[i] # nilNode}
        pos == CHOOSE i \in used : TRUE
        child == resolve(st, children[pos])
    IN  IF Cardinality(used) > 1 THEN Changed(fullNode(children))
        ELSE IF child = Missing THEN Failed
        ELSE IF child.type = "short" THEN Changed(Join(<<pos>>, child))
        ELSE Changed(shortNode(<<pos>>, children[pos]))

RECURSIVE delete(_, _, _)
delete(st, n, key) ==
    CASE n.type = "short" ->
           IF ~StartsWith(key, n.key) THEN Same(n)
           ELSE IF key = n.key THEN Changed(nilNode)
           ELSE Within(delete(st, n.value, Drop(key, Len(n.key))), n, LAMBDA c : Join(n.key, c))
      [] n.type = "full" ->
           LET r == delete(st, n.children[key[1]], Tail(key))
           IN  IF r.dirty THEN Degenerate(st, [n.children EXCEPT ![key[1]] = r.n])
               ELSE IF r = Failed THEN r ELSE Same(n)
      [] n.type = "value" -> Changed(nilNode)
      [] n.type = "nil" -> Same(n)
      [] n.type = "hash" -> delete(st, resolveHash(st, n), key)
      [] n.type = "missing" -> Failed

\* Update: an empty value deletes.
Updated(st, n, k, v) == IF v = 0 THEN delete(st, n, keyToNibbles(k))
                        ELSE insert(st, n, keyToNibbles(k), valueNode(v))
-----------------------------------------------------------------------------
\* Whether a cached hash may stand for the node.
Known(n, commit) == /\ n.flags.hash # nilNode /\ ~n.flags.dirty
                    /\ commit => n.flags.persisted

\* hashNode and commitNode: the reference for n, n with hashes cached, and the
\* encodings commitNode puts.
RECURSIVE reference(_, _)
reference(n, commit) ==
    IF n.type \notin {"short", "full"} THEN [ref |-> n, cached |-> n, puts |-> {}]
    ELSE IF Known(n, commit) THEN [ref |-> n.flags.hash, cached |-> n, puts |-> {}]
    ELSE LET below == IF n.type = "short" THEN [i \in {0} |-> reference(n.value, commit)]
                      ELSE [i \in Slots |-> reference(n.children[i], commit)]
             with(part) == IF n.type = "short" THEN [n EXCEPT !.value = below[0][part]]
                           ELSE [n EXCEPT !.children = [i \in Slots |-> below[i][part]]]
             enc == encodeNode(with("ref"))
             puts == IF commit THEN UNION {below[i].puts : i \in DOMAIN below} ELSE {}
         IN  IF encLen(enc) < 32
             THEN [ref |-> with("ref"), cached |-> with("cached"), puts |-> puts]
             ELSE [ref |-> hashOf(enc),
                   cached |-> [with("cached") EXCEPT
                                 !.flags = [hash |-> hashOf(enc), dirty |-> FALSE,
                                            persisted |-> commit \/ n.flags.persisted]],
                   puts |-> IF commit THEN puts \cup {enc} ELSE {}]

\* A root below 32 bytes is hashed, and put, all the same.
RootHash(n) ==
    IF n = nilNode THEN EmptyRoot
    ELSE LET r == reference(n, FALSE).ref
         IN  IF r.type = "hash" THEN r ELSE hashOf(encodeNode(r))

\* The hash, the cached root and the encodings of Commit.
CommitOf(n) ==
    IF n = nilNode THEN [hash |-> EmptyRoot, cached |-> n, puts |-> {}]
    ELSE LET r == reference(n, TRUE)
             enc == encodeNode(r.ref)
         IN  IF r.ref.type = "hash" THEN [hash |-> r.ref, cached |-> r.cached, puts |-> r.puts]
             ELSE [hash |-> hashOf(enc), cached |-> r.cached, puts |-> r.puts \cup {enc}]

\* ForEach: the pairs in the order they are reported.
RECURSIVE forEach(_, _, _)
forEach(st, n, path) ==
    LET order == SetToSortSeq(Slots, <)
    IN  CASE n.type = "nil" -> <<>>
          [] n.type = "value" -> << <<nibblesToKey(path), n.v>> >>
          [] n.type = "short" -> forEach(st, n.value, path \o n.key)
          [] n.type = "full" -> FlattenSeq([i \in 1..Len(order) |->
                                  forEach(st, n.children[order[i]], Append(path, order[i]))])
          [] n.type = "hash" -> forEach(st, resolveHash(st, n), path)
          [] n.type = "missing" -> <<Error>>

\* VisitNodes: the hashes reported to onNode.
RECURSIVE visit(_, _)
visit(st, n) ==
    CASE n.type \in {"nil", "value"} -> {}
      [] n.type \in {"short", "full"} ->
           ({n.flags.hash} \ {nilNode})
           \cup (IF n.type = "short" THEN visit(st, n.value)
                 ELSE UNION {visit(st, n.children[i]) : i \in Slots})
      [] n.type = "hash" -> {n} \cup visit(st, resolveHash(st, n))
      [] n.type = "missing" -> {}

\* NodeReferences: the hashes an encoding points at.
RECURSIVE collectReferences(_)
collectReferences(n) ==
    CASE n.type = "short" -> collectReferences(n.value)
      [] n.type = "full" -> UNION {collectReferences(n.children[i]) : i \in Slots}
      [] n.type = "hash" -> {n}
      [] OTHER -> {}
NodeReferences(enc) == collectReferences(decodeNode(nilNode, enc))

\* Prove: the encodings of the nodes on the way to key.
RECURSIVE path(_, _, _)
path(st, n, key) ==
    LET enc == encodeNode(IF n.type = "short"
                          THEN [n EXCEPT !.value = reference(@, FALSE).ref]
                          ELSE [n EXCEPT !.children =
                                  [i \in Slots |-> reference(@[i], FALSE).ref]])
    IN  CASE n.type = "short" ->
               {enc} \cup (IF StartsWith(key, n.key)
                           THEN path(st, n.value, Drop(key, Len(n.key))) ELSE {})
          [] n.type = "full" -> {enc} \cup (IF key = <<>> THEN {}
                                            ELSE path(st, n.children[key[1]], Tail(key)))
          [] n.type = "hash" -> path(st, resolveHash(st, n), key)
          [] OTHER -> {}
Prove(st, n, k) == path(st, reference(n, FALSE).cached, keyToNibbles(k))

\* VerifyProof: the walk over the proof's nodes alone.
RECURSIVE walk(_, _, _)
walk(proof, n, key) ==
    CASE n.type = "short" -> IF StartsWith(key, n.key) THEN walk(proof, n.value, Drop(key, Len(n.key)))
                             ELSE NotFound
      [] n.type = "full" -> IF key = <<>> THEN NotFound
                            ELSE walk(proof, n.children[key[1]], Tail(key))
      [] n.type = "value" -> IF key # <<>> THEN NotFound ELSE n.v
      [] n.type = "hash" -> walk(proof, resolveHash(proof, n), key)
      [] n.type = "nil" -> NotFound
      [] n.type = "missing" -> Error
VerifyProof(hash, k, proof) == walk(proof, resolveHash(proof, hash), keyToNibbles(k))
-----------------------------------------------------------------------------
Empty == [k \in Keys |-> 0]
Order == SetToSeq(Keys)

\* A trie with the entries of m, inserted one after the other and committed.
Built(m) == CommitOf(FoldLeft(LAMBDA n, k : Updated({}, n, k, m[k]).n, nilNode, Order))

Init ==
    \E m \in Starts :
        /\ kv = m
        /\ store = Built(m).puts
        /\ root = New(store, Built(m).hash)
        /\ committed = {<<Built(m).hash, m>>}
        /\ ops = 0

Op == ops < MaxOps /\ ops' = ops + 1

Update(k, v) ==
    /\ Op
    /\ root' = Updated(store, root, k, v).n
    /\ kv' = [kv EXCEPT ![k] = v]
    /\ UNCHANGED <<store, committed>>

Get(k) == Op /\ root' = get(store, root, keyToNibbles(k))[2] /\ UNCHANGED <<store, kv, committed>>

Hash == Op /\ root' = reference(root, FALSE).cached /\ UNCHANGED <<store, kv, committed>>

CommitTo ==
    /\ Op
    /\ LET c == CommitOf(root)
       IN  /\ root' = c.cached
           /\ store' = store \cup c.puts
           /\ committed' = committed \cup {<<c.hash, kv>>}
    /\ UNCHANGED kv

Reload ==
    /\ Op
    /\ \E c \in committed : root' = New(store, c[1]) /\ kv' = c[2]
    /\ UNCHANGED <<store, committed>>

Next == \/ \E k \in Keys, v \in Values \cup {0} : Update(k, v)
        \/ \E k \in Keys : Get(k)
        \/ Hash
        \/ CommitTo
        \/ Reload

Spec == Init /\ [][Next]_vars
-----------------------------------------------------------------------------
Lookup(st, n, k) == get(st, n, keyToNibbles(k))[1]

\* The structure the trie of a map must have, from the map alone: one entry is
\* a leaf, a common prefix an extension, a difference a branch.
RECURSIVE Structure(_, _)
Structure(entries, from) ==
    LET paths == DOMAIN entries
        some == CHOOSE p \in paths : TRUE
        common == Len(LongestCommonPrefix(paths))
        under(i) == {p \in paths : p[from + 1] = i}
    IN  IF paths = {} THEN nilNode
        ELSE IF Cardinality(paths) = 1
        THEN IF from = Len(some) THEN valueNode(entries[some])
             ELSE shortNode(Drop(some, from), valueNode(entries[some]))
        ELSE IF common > from THEN shortNode(SubSeq(some, from + 1, common), Structure(entries, common))
        ELSE fullNode([i \in Slots |-> Structure(Restrict(entries, under(i)), from + 1)])

Entries(m) == LET used == {k \in Keys : m[k] # 0}
              IN  [p \in {keyToNibbles(k) : k \in used} |-> m[nibblesToKey(p)]]

Canonical(m) == IF m = Empty THEN EmptyRoot ELSE hashOf(encodeNode(Structure(Entries(m), 0)))

\* Get, ForEach: after any sequence of updates, deletions, hashings, commits and
\* reloads every key reads as it was last written, and the listing is the map,
\* in key order.
ReadsMap ==
    /\ \A k \in Keys : Lookup(store, root, k) = kv[k]
    /\ LET listed == forEach(store, root, <<>>)
           entries == Entries(kv)
           order == SetToSortSeq(DOMAIN entries, LAMBDA p, q :
                        \E i \in 1..Len(p) : /\ i <= Len(q) /\ p[i] < q[i]
                                             /\ \A j \in 1..(i - 1) : p[j] = q[j])
       IN  listed = [i \in 1..Len(order) |-> <<nibblesToKey(order[i]), entries[order[i]]>>]

\* "That rule is what makes the root hash a commitment to the entire key/value
\* set": the root depends on the map alone, not on the order of the updates, on
\* what was deleted on the way, or on what has been hashed or stored already.
RootIsCanonical == RootHash(root) = Canonical(kv)

\* Commit: a root that was committed loads from the store and reads back as the
\* map it was committed with, whatever has happened to the trie since, and the
\* nodes VisitNodes reports of it are all that it needs (the pruner keeps no
\* others); following NodeReferences from the root finds the same nodes (the
\* state sync fetches no others).
RECURSIVE Closure(_)
Closure(hashes) ==
    LET more == hashes \cup UNION {NodeReferences(h.of) : h \in hashes}
    IN  IF more = hashes THEN hashes ELSE Closure(more)

CommittedLoads ==
    \A c \in committed : c[1] # EmptyRoot =>
        LET reported == visit(store, New(store, c[1]))
            kept == {h.of : h \in reported}
        IN  /\ kept \subseteq store
            /\ Closure({c[1]}) = reported
            /\ \A k \in Keys : Lookup(kept, New(kept, c[1]), k) = c[2][k]

\* Prove, VerifyProof: the proof of a key shows what the trie holds for it, and
\* no part of a proof shows anything else; a trie loaded from a proof (ProofDB)
\* answers like the whole one, or fails for want of a node.
ProofsAreSound ==
    root # nilNode =>
        \A k \in Keys :
            LET proof == Prove(store, root, k)
                hash == RootHash(root)
                partial == New(proof, hash)
            IN  /\ VerifyProof(hash, k, proof) = kv[k]
                /\ \A enc \in proof : VerifyProof(hash, k, proof \ {enc}) \in {kv[k], Error}
                /\ \A q \in Keys : Lookup(proof, partial, q) \in {kv[q], Error}

\* A trie that was loaded from the proof of a key alone (ProofDB) and has that key
\* updated ends with the root of the whole trie, or fails for want of a node.
PartialUpdatesAgree ==
    [][\A k \in Keys :
          (root # nilNode /\ kv' # kv /\ kv' = [kv EXCEPT ![k] = kv'[k]]) =>
              LET proof == Prove(store, root, k)
                  u == Updated(proof, New(proof, RootHash(root)), k, kv'[k])
              IN  u # Failed => RootHash(u.n) = RootHash(root')]_vars

\* Whatever happened to it, a trie is the map it stands for, read key by key,
\* listed, hashed, loaded from the store, shown by a proof or updated from one.
TrieStandsForMap ==
    [](ReadsMap /\ RootIsCanonical /\ CommittedLoads /\ ProofsAreSound) /\ PartialUpdatesAgree
=============================================================================
