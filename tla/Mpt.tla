--------------------------------- MODULE Mpt ---------------------------------
(***************************************************************************)
(* The insert-only Merkle Patricia trie (test/state/mpt.cpp).              *)
(*                                                                         *)
(* A path is a sequence of nibbles, a value one of bytes. A node has all four members of         *)
(* MPTNode; of m_children only the slots in use are kept. An assertion     *)
(* that fails makes the node Aborted. keccak256 is taken to be injective:  *)
(* a hash is the list of items that is hashed.                             *)
(***************************************************************************)
EXTENDS Integers, Sequences, FiniteSets, TLC

num_children == 16

(* Path::Path(): two nibbles of each byte of the key.                      *)
Path(key) ==
  [i \in 1 .. 2 * Len(key) |->
     IF i % 2 = 1 THEN key[(i + 1) \div 2] \div 16 ELSE key[i \div 2] % 16]

tail(p, pos) == SubSeq(p, pos + 1, Len(p))
head(p, size) == SubSeq(p, 1, size)

(* Mutant: an odd path is not marked as odd.                               *)
encode_path_without_parity(p, extended) ==
  LET odd == Len(p) % 2
      first == IF odd = 1 THEN p[1] ELSE 0
  IN <<IF extended THEN first ELSE first + 32>>
       \o [k \in 1 .. Len(p) \div 2 |-> 16 * p[2 * k - 1 + odd] + p[2 * k + odd]]

(* Path::encode(): the hex-prefix form.                                    *)
encode_path(p, extended) ==
  LET odd == Len(p) % 2
      first == IF odd = 1 THEN 16 + p[1] ELSE 0
  IN <<IF extended THEN first ELSE first + 32>>
       \o [k \in 1 .. Len(p) \div 2 |-> 16 * p[2 * k - 1 + odd] + p[2 * k + odd]]

------------------------------------------------------------------------------
(* Nodes.                                                                  *)

NoChildren == <<>>
Node(kind, path, value, children) ==
  [kind |-> kind, path |-> path, value |-> value, children |-> children]

Aborted == Node("aborted", <<>>, <<>>, NoChildren)

leaf(path, value) == Node("leaf", path, value, NoChildren)

(* MPTNode::ext() asserts that the child is a branch.                      *)
ext(path, child) == IF child.kind = "branch" THEN Node("ext", path, <<>>, 0 :> child) ELSE Aborted

optional_ext(path, child) == IF path = <<>> THEN child ELSE ext(path, child)

(* MPTNode::ext_branch().                                                  *)
ext_branch(path, idx1, child1, idx2, child2) ==
  IF idx1 = idx2 THEN Aborted
  ELSE optional_ext(path, Node("branch", <<>>, <<>>, idx1 :> child1 @@ idx2 :> child2))

(* MPTNode::mismatch(): how many nibbles are the same, p1 not being longer.*)
mismatch(p1, p2) ==
  CHOOSE n \in 0 .. Len(p1) :
    /\ \A i \in 1 .. n : p1[i] = p2[i]
    /\ n < Len(p1) => p1[n + 1] # p2[n + 1]

(* Mutant: what is left of an extension is put back without its path.      *)
pushed_down_without_ext(node, pos) ==
  IF node.kind = "leaf" THEN leaf(tail(node.path, pos + 1), node.value) ELSE node.children[0]

(* The node under the new branch that stands for what was split at pos.    *)
pushed_down(node, pos) ==
  IF node.kind = "leaf" THEN leaf(tail(node.path, pos + 1), node.value)
  ELSE optional_ext(tail(node.path, pos + 1), node.children[0])

(* A leaf or an extension split where it differs from the new path.        *)
split(node, path, value) ==
  LET pos == mismatch(node.path, path)
  IN ext_branch(head(node.path, pos), node.path[pos + 1], pushed_down(node, pos),
                path[pos + 1], leaf(tail(path, pos + 1), value))

(* MPTNode::insert(), and the node it makes of the one it is called on.    *)
RECURSIVE insert_node(_, _, _)
insert_node(node, path, value) ==
  IF node.kind = "aborted" \/ path = <<>> \/ Len(node.path) > Len(path) THEN Aborted
  ELSE IF node.kind = "branch"
  THEN LET idx == path[1]
           child == IF idx \in DOMAIN node.children
                    THEN insert_node(node.children[idx], tail(path, 1), value)
                    ELSE leaf(tail(path, 1), value)
       IN [node EXCEPT !.children = idx :> child @@ @]
  ELSE IF node.path = <<>> THEN Aborted
  ELSE IF mismatch(node.path, path) < Len(node.path) THEN split(node, path, value)
  ELSE IF node.kind = "leaf" THEN Aborted
  ELSE [node EXCEPT !.children[0] = insert_node(@, tail(path, Len(node.path)), value)]

(* MPTNode::hash(): an item that is empty is the empty string.             *)
RECURSIVE hash_node(_)
hash_node(node) ==
  IF node.kind = "leaf" THEN <<encode_path(node.path, FALSE), node.value>>
  ELSE IF node.kind = "ext" THEN <<encode_path(node.path, TRUE), hash_node(node.children[0])>>
  ELSE [i \in 1 .. num_children + 1 |->
          IF i - 1 \in DOMAIN node.children THEN <<hash_node(node.children[i - 1])>> ELSE <<>>]

------------------------------------------------------------------------------
(* MPT: a null m_root, or the root in a sequence of one.                   *)

EmptyTrie == <<>>
insert(trie, key, value) ==
  <<IF trie = EmptyTrie THEN leaf(Path(key), value) ELSE insert_node(trie[1], Path(key), value)>>

(* MPT::hash(), in a sequence of one; emptyMPTHash has no items.           *)
hash(trie) == IF trie = EmptyTrie THEN <<>> ELSE <<hash_node(trie[1])>>

------------------------------------------------------------------------------
(* What a trie is for: the definition the shape is compared with, and the  *)
(* reading of the hashed items. A mapping is a function on paths.          *)

SharedPrefix(paths) ==
  LET p == CHOOSE p \in paths : TRUE
  IN head(p, CHOOSE n \in 0 .. Len(p) :
               /\ \A q \in paths : Len(q) >= n /\ head(q, n) = head(p, n)
               /\ \E q \in paths : Len(q) = n \/ Len(p) = n \/ q[n + 1] # p[n + 1])

(* The trie of a mapping whose paths are no prefixes of each other: one    *)
(* path is a leaf, a common start an extension, and the rest a branch.     *)
RECURSIVE TrieOf(_)
TrieOf(mapping) ==
  LET paths == DOMAIN mapping
      shared == SharedPrefix(paths)
      n == Len(shared)
  IN IF Cardinality(paths) = 1 THEN leaf(shared, mapping[shared])
     ELSE IF n > 0
     THEN Node("ext", shared, <<>>,
               0 :> TrieOf([q \in {tail(p, n) : p \in paths} |-> mapping[shared \o q]]))
     ELSE Node("branch", <<>>, <<>>,
               [i \in {p[1] : p \in paths} |->
                  TrieOf([q \in {tail(p, 1) : p \in {r \in paths : r[1] = i}} |-> mapping[<<i>> \o q]])])

(* The path of a hex-prefix form, and whether it is the path of a leaf.    *)
DecodedPath(b) ==
  LET rest == Path(Tail(b))
  IN IF (b[1] \div 16) % 2 = 1 THEN <<b[1] % 16>> \o rest ELSE rest
IsLeafPath(b) == b[1] \div 32 = 1

(* The paths and values that can be read from a hash.                      *)
RECURSIVE Readings(_, _)
Readings(items, prefix) ==
  IF Len(items) = num_children + 1
  THEN UNION {Readings(items[i][1], prefix \o <<i - 1>>) : i \in {j \in 1 .. num_children : items[j] # <<>>}}
  ELSE IF IsLeafPath(items[1]) THEN {<<prefix \o DecodedPath(items[1]), items[2]>>}
  ELSE Readings(items[2], prefix \o DecodedPath(items[1]))
==============================================================================
