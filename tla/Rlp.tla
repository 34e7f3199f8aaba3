--------------------------------- MODULE Rlp ---------------------------------
(***************************************************************************)
(* RLP encoding (test/state/rlp.hpp). Bytes are sequences of 0 .. 255.     *)
(***************************************************************************)
EXTENDS Integers, Sequences

Byte == 0 .. 255

short_cutoff == 55

(* internal::encode_length<ShortBase, LongBase>(): l is below 2^24.        *)
encode_length(ShortBase, LongBase, l) ==
  LET l0 == l % 256
      l1 == (l \div 256) % 256
      l2 == l \div 65536
  IN IF l <= short_cutoff THEN <<ShortBase + l>>
     ELSE IF l <= 255 THEN <<LongBase + 1, l0>>
     ELSE IF l <= 65535 THEN <<LongBase + 2, l1, l0>>
     ELSE <<LongBase + 3, l2, l1, l0>>

string_header(l) == encode_length(128, 183, l)
list_header(l) == encode_length(192, 247, l)

wrap_list(content) == list_header(Len(content)) \o content

(* trim(): without the leading zeros.                                      *)
trim(b) ==
  LET significant == {i \in 1 .. Len(b) : b[i] # 0}
  IN IF significant = {} THEN <<>>
     ELSE SubSeq(b, CHOOSE i \in significant : \A j \in significant : i <= j, Len(b))

(* encode(bytes_view).                                                     *)
encode(data) ==
  IF Len(data) = 1 /\ data[1] < 128 THEN data ELSE string_header(Len(data)) \o data

(* intx::be::store() of a uint64_t below 2^24.                             *)
big_endian(x) == <<0, 0, 0, 0, 0, x \div 65536, (x \div 256) % 256, x % 256>>

(* encode(uint64_t).                                                       *)
encode_uint64(x) == encode(trim(big_endian(x)))

------------------------------------------------------------------------------
(* What an encoding means: a decoder, from the definition of RLP. The      *)
(* items of a sequence of bytes are strings and lists of items.            *)

String(data) == [string |-> data]
List(items) == [list |-> items]

BigEndian(b) ==
  CASE Len(b) = 1 -> b[1]
    [] Len(b) = 2 -> 256 * b[1] + b[2]
    [] Len(b) = 3 -> 65536 * b[1] + 256 * b[2] + b[3]

LongItem(kind, b, n) == [kind |-> kind, at |-> n + 2, len |-> BigEndian(SubSeq(b, 2, n + 1))]

(* The kind of the first item of b, where its payload is and how long.     *)
DecodedHeader(b) ==
  CASE b[1] < 128 -> [kind |-> "string", at |-> 1, len |-> 1]
    [] b[1] \in 128 .. 183 -> [kind |-> "string", at |-> 2, len |-> b[1] - 128]
    [] b[1] \in 184 .. 191 -> LongItem("string", b, b[1] - 183)
    [] b[1] \in 192 .. 247 -> [kind |-> "list", at |-> 2, len |-> b[1] - 192]
    [] b[1] >= 248 -> LongItem("list", b, b[1] - 247)

RECURSIVE Decoded(_)
Decoded(b) ==
  IF b = <<>> THEN <<>>
  ELSE LET h == DecodedHeader(b)
           payload == SubSeq(b, h.at, h.at + h.len - 1)
       IN <<IF h.kind = "string" THEN String(payload) ELSE List(Decoded(payload))>>
            \o Decoded(SubSeq(b, h.at + h.len, Len(b)))
==============================================================================
