------------------------------- MODULE MptHash -------------------------------
(***************************************************************************)
(* The four mpt_hash() functions (test/state/mpt_hash.cpp): the loops that *)
(* insert a storage or the accounts, in the order of an unordered map, or  *)
(* the transactions or receipts, by index, into a trie, and hash it.       *)
(*                                                                         *)
(* The key of an entry of a map is its hash, of a fixed length. What is    *)
(* hashed differs in a number: the value of a storage slot, 0 if it was    *)
(* deleted; the nonce of an account, and its balance with it; the nonce    *)
(* and the size of the data of a transaction; the gas of a receipt and its *)
(* status. The bytes of the other members are the same everywhere.         *)
(***************************************************************************)
EXTENDS Mpt, Rlp

CONSTANTS
  Keys,      \* the hashed keys of a map
  Values,    \* values of storage, 0 among them, and of accounts
  MaxList    \* bound: transactions or receipts

ASSUME KeysAssumption ==
  /\ \A k \in Keys : k \in Seq(Byte)
  /\ \A k, l \in Keys : Len(k) = Len(l)
ASSUME ValuesAssumption == 0 \in Values /\ Values \subseteq 0 .. 16777215
ASSUME MaxListAssumption == MaxList \in 0 .. 16777215

VARIABLES
  source,   \* what is hashed: kind, and the map, which a list does not have
  pending,  \* keys of the map the loop has not come to
  next,     \* i of the loop over a list
  trie

vars == <<source, pending, next, trie>>

Source(kind, entries) == [kind |-> kind, entries |-> entries]

Init ==
  /\ \/ \E kind \in {"storage", "accounts"}, keys \in SUBSET Keys :
          \E entries \in [keys -> Values] : source = Source(kind, entries)
     \/ \E kind \in {"transactions", "receipts"} : source = Source(kind, <<>>)
  /\ pending = DOMAIN source.entries
  /\ next = 0
  /\ trie = EmptyTrie

------------------------------------------------------------------------------
(* The values of the trie.                                                 *)

Fixed(size) == [i \in 1 .. size |-> 200]

(* A storage value is 32 bytes, of which trim() leaves what an integer has.*)
storage_value(x) == encode_uint64(x)

(* The balance of the account with nonce x: another number, of one or two  *)
(* bytes.                                                                  *)
balance_of(x) == (x + 128) % 16777216

(* encode_tuple() of nonce, balance, storage hash and code hash.           *)
account_value(x) ==
  wrap_list(encode_uint64(x) \o encode_uint64(balance_of(x)) \o encode(Fixed(32)) \o encode(Fixed(32)))

(* A list of no or one pair of an address and a list of one storage key.   *)
access_list(i) ==
  wrap_list(IF i % 2 = 0 THEN <<>>
            ELSE wrap_list(encode(Fixed(20)) \o wrap_list(encode(Fixed(32)))))

(* rlp_encode(Transaction): the type, then the tuple.                      *)
transaction_value(i) ==
  <<2>> \o wrap_list(encode_uint64(i) \o encode(Fixed(i)) \o access_list(i))

(* A list of no or one log: rlp_encode(Log) of address, topics and data.   *)
log_list(i) ==
  wrap_list(IF i % 2 = 0 THEN <<>>
            ELSE wrap_list(encode(Fixed(20)) \o wrap_list(encode(Fixed(32))) \o encode(<<>>)))

(* rlp_encode(TransactionReceipt): a failed one has no logs.               *)
receipt_value(i) ==
  <<2>> \o wrap_list(encode_uint64(i % 2) \o encode_uint64(i) \o encode(Fixed(256)) \o log_list(i))

value_of(kind, x) ==
  CASE kind = "storage" -> storage_value(x)
    [] kind = "accounts" -> account_value(x)
    [] kind = "transactions" -> transaction_value(x)
    [] kind = "receipts" -> receipt_value(x)

------------------------------------------------------------------------------
(* Deleted values of a storage are not hashed.                             *)
skips(kind, x) == kind = "storage" /\ x = 0

(* One entry of the map, whichever comes next.                             *)
InsertEntry(key) ==
  /\ key \in pending
  /\ pending' = pending \ {key}
  /\ trie' = IF skips(source.kind, source.entries[key]) THEN trie
             ELSE insert(trie, key, value_of(source.kind, source.entries[key]))
  /\ UNCHANGED <<source, next>>

(* One element of the list, under the encoding of its index.               *)
InsertElement ==
  /\ source.kind \in {"transactions", "receipts"}
  /\ next < MaxList
  /\ next' = next + 1
  /\ trie' = insert(trie, encode_uint64(next), value_of(source.kind, next))
  /\ UNCHANGED <<source, pending>>

Next == (\E key \in Keys : InsertEntry(key)) \/ InsertElement

Spec == Init /\ [][Next]_vars

------------------------------------------------------------------------------
(* Properties.                                                             *)

(* What has been inserted: the numbers, by path.                           *)
Inserted ==
  IF source.kind \in {"transactions", "receipts"}
  THEN LET keys == {<<i, Path(encode_uint64(i))>> : i \in 0 .. next - 1}
       IN [p \in {k[2] : k \in keys} |-> (CHOOSE k \in keys : k[2] = p)[1]]
  ELSE LET keys == {k \in DOMAIN source.entries \ pending :
                      source.kind = "accounts" \/ source.entries[k] # 0}
       IN [p \in {Path(k) : k \in keys} |-> source.entries[CHOOSE k \in keys : Path(k) = p]]

(* The trie has the one shape its contents determine, whatever the order   *)
(* of the insertions that split leaves and extensions, and no assertion of *)
(* MPTNode fails on the way.                                               *)
TrieIsCanonical ==
  LET inserted == Inserted
      contents == [p \in DOMAIN inserted |-> value_of(source.kind, inserted[p])]
  IN trie = IF DOMAIN contents = {} THEN EmptyTrie ELSE <<TrieOf(contents)>>

(* The items a value is made of.                                           *)
Integer(x) == String(trim(big_endian(x)))
Entries(x, rest) ==
  List(IF x % 2 = 0 THEN <<>>
       ELSE <<List(<<String(Fixed(20)), List(<<String(Fixed(32))>>)>> \o rest)>>)
Items(kind, x) ==
  CASE kind = "storage" -> <<Integer(x)>>
    [] kind = "accounts" ->
         <<List(<<Integer(x), Integer(balance_of(x)), String(Fixed(32)), String(Fixed(32))>>)>>
    [] kind = "transactions" ->
         <<String(<<2>>), List(<<Integer(x), String(Fixed(x)), Entries(x, <<>>)>>)>>
    [] kind = "receipts" ->
         <<String(<<2>>),
           List(<<Integer(x % 2), Integer(x), String(Fixed(256)), Entries(x, <<String(<<>>)>>)>>)>>

(* The hashed items determine the contents: reading them, with the flags   *)
(* of the hex-prefix paths and the headers of the RLP values, gives the    *)
(* entries inserted, member by member, and no others.                      *)
HashDeterminesContents ==
  LET inserted == Inserted
  IN hash(trie) # <<>> =>
    {<<r[1], Decoded(r[2])>> : r \in Readings(hash(trie)[1], <<>>)} =
      {<<p, Items(source.kind, inserted[p])>> : p \in DOMAIN inserted}
==============================================================================
