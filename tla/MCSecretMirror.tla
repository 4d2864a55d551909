--------------------------- MODULE MCSecretMirror ---------------------------
(* Instances of SecretMirror for TLC. *)
EXTENDS SecretMirror, TLC

CONSTANTS bao, copy, third, item,                        \* entries: three paths and a 1Password item
          bao1, copy1, copy2, third1, item1, item2, \* addresses in them
          k1, k2, v1, v2,
          rUser, rPass, rCode, rMore, f1, s1, s2

MCEntryOf == bao1 :> bao @@ copy1 :> copy @@ copy2 :> copy @@ third1 :> third @@ item1 :> item @@ item2 :> item
MCKeyOf == bao1 :> k1 @@ copy1 :> k1 @@ copy2 :> k2 @@ third1 :> k1 @@ item1 :> k1 @@ item2 :> k2

\* A user without a fallback and a password with one, in one item; a code that `op`
\* derives from the item; a read that falls back twice.
MCChain == rUser :> <<item1>> @@ rPass :> <<item2, copy2>> @@ rCode :> <<item2, copy1>> @@
           rMore :> <<bao1, copy1, item1>>
MCWanted == {{rUser, rPass}, {rPass, rCode, rMore}}

AllBuilt == [e \in {bao, copy, third, item} |-> "built"]
Machines == {AllBuilt, [AllBuilt EXCEPT ![item] = "here"], [AllBuilt EXCEPT ![copy] = "nowhere"]}

Map(a, b) == [kind |-> "map", val |-> k1 :> a @@ k2 :> b @@ SourceKey :> NoValue]
Holding(b, c, i) == bao :> b @@ copy :> c @@ third :> Bare("absent") @@ item :> i
Seeds ==
    {Holding(Map(v1, v1), Map(v2, v2), Map(v2, v2)),
     Holding(Bare("absent"), Bare("garbled"), Map(v2, NoValue)),
     Holding(Bare("absent"), Bare("absent"), Map(v2, Twice)),
     Holding(Map(v2, v1), Map(v1, v1), Map(EmptyValue, EmptyValue))}

M(source, targets) == [source |-> source, targets |-> targets]

\* A fan-out; two mirrors of one path; a chain in either order; a ring of two and
\* of three; and what must be refused: a path of two sources, a target declared
\* twice, and one in 1Password.
Configs ==
    {<<M(item1, <<copy1, copy2>>)>>,
     <<M(bao1, <<copy1>>), M(bao1, <<copy2>>)>>,
     <<M(bao1, <<third1>>), M(item1, <<bao1>>)>>,
     <<M(item1, <<bao1>>), M(bao1, <<third1>>)>>,
     <<M(bao1, <<copy1>>), M(copy1, <<bao1>>)>>,
     <<M(third1, <<bao1>>), M(copy1, <<third1>>), M(bao1, <<copy1>>)>>,
     <<M(bao1, <<copy1>>), M(item1, <<copy2>>)>>,
     <<M(bao1, <<copy1>>), M(bao1, <<copy1>>)>>,
     <<M(bao1, <<item1>>)>>}

\* One fetcher, or one machine that mirrors; two that mirror at once, with fewer
\* mirrors and contents.
MCScenes ==
    [kv : Seeds, host : Machines, cfg : {<<>>}, cast : {{f1}}] \cup
    [kv : Seeds, host : Machines, cfg : Configs, cast : {{s1}}] \cup
    [kv : {Holding(Map(v1, v1), Map(v2, v2), Map(v2, v2))}, host : {AllBuilt},
     cfg : {<<M(item1, <<copy1, copy2>>)>>, <<M(bao1, <<copy1>>), M(bao1, <<copy2>>)>>,
            <<M(bao1, <<third1>>), M(item1, <<bao1>>)>>},
     cast : {{s1, s2}}]
=============================================================================
