------------------------------ MODULE MCFraming ------------------------------
(* A prefix of three bytes, digests of two, and the scripts of up to three *)
(* items.  The payload <<"x">> does not decode; other payloads contain the *)
(* bytes that delimit headers.  "big" is a size that the bytes of a script *)
(* never reach, "max" is usize::MAX.                                       *)
EXTENDS FrameStream

CONSTANT MaxItems   \* bound: items in a script

MCPrefix == <<"<", "S", "=">>
MCFields == [t \in {"0ch", "1ch", "2ch", "3ch", "bigch", "maxch", "1", "max"} |->
    [data_size |-> CASE t = "0ch" -> 0 [] t \in {"1ch", "1"} -> 1
                     [] t = "2ch" -> 2 [] t = "3ch" -> 3
                     [] t = "bigch" -> MaxUsize - 10 [] t \in {"maxch", "max"} -> MaxUsize,
     compressed |-> t \notin {"1", "max"}, use_hash |-> t \notin {"1", "max"}]]
MCDigest(d) == <<"#", IF d = <<>> THEN "#" ELSE d[1]>>
MCDecodes(d, c) == d # <<"x">>

Items ==
    {Frame(Encode(d), d) : d \in {<<>>, <<"a">>, <<">", "<">>, MCPrefix}}
    \cup {Frame(MCPrefix \o <<"1", ">", "b">>, <<"b">>)}
    \cup {Damaged(MCPrefix \o <<"1ch", ">", "a", "#", "b">>),
          Damaged(MCPrefix \o <<"2ch", ">", "a">>), Damaged(Encode(<<"x">>)),
          Damaged(MCPrefix \o <<"bigch", ">">>), Damaged(MCPrefix \o <<"maxch", ">">>),
          Damaged(MCPrefix \o <<"max", ">">>)}
    \cup {Stray(<<"a">>), Stray(<<">">>), Stray(<<"<", "S">>)}
    \cup {Malformed(MCPrefix \o <<"?", ">">>), Malformed(MCPrefix)}

MCScripts == UNION {[1..n -> Items] : n \in 1..MaxItems}

=============================================================================
