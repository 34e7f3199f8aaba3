-------------------------------- MODULE MCMpt --------------------------------
(* Keys of two bytes that share no, some or nearly all of their nibbles.   *)
EXTENDS MptHash

MCKeys == {<<0, 0>>, <<0, 1>>, <<0, 16>>, <<1, 0>>, <<16, 0>>, <<255, 255>>}

(* Lengths too long to have as sequences: the headers alone.               *)
ASSUME LongHeaders ==
  \A l \in {65535, 65536, 16777215} :
    /\ DecodedHeader(string_header(l)) = [kind |-> "string", at |-> Len(string_header(l)) + 1, len |-> l]
    /\ DecodedHeader(list_header(l)) = [kind |-> "list", at |-> Len(list_header(l)) + 1, len |-> l]
==============================================================================
