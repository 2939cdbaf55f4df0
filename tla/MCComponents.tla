---------------------------- MODULE MCComponents ----------------------------
(* The components that stand alone, for TLC: network events, the elastic    *)
(* array, the map over the elastic queue, the pool, the cipher stream, the  *)
(* hashes, the generator of random bytes, and two parsers.  They do not     *)
(* interact, so each behaviour runs one of them, and which says which one;  *)
(* the others stay in one of their initial states.  See README.md for the   *)
(* bounds.                                                                  *)
EXTENDS EventsNetwork, SeqPtrMap, MPool, AesCtr, Hash, CryptoEntropy, Json, Getopt

VARIABLE which

networkvars == <<netvars, recvars>>
allvars == <<which, networkvars, eavars, mapvars, poolvars, aesvars, hashvars,
             entropyvars, jsonvars, getoptvars>>

AnyOf(X) == CHOOSE x \in X : TRUE

Init ==
  /\ which \in {"network", "array", "map", "pool", "aes", "hash", "entropy", "json", "getopt"}
  /\ IF which = "array" THEN TRUE ELSE EA = EmptyArray
  /\ IF which = "aes" THEN TRUE ELSE strm = Fresh(AnyOf(Nonces), be64enc(0))
  /\ IF which = "hash" THEN TRUE ELSE alg = "md5" /\ klen = -1
  /\ IF which = "json" THEN TRUE ELSE json = AnyOf(Documents) /\ name = AnyOf(Names)
  /\ IF which = "getopt" THEN TRUE ELSE argv = AnyOf(Commands)
  /\ NetStart
  /\ ElasticInit /\ MapInit /\ PoolInit /\ AesInit /\ HashInit /\ EntropyInit
  /\ JsonInit /\ GetoptInit

Next ==
  /\ UNCHANGED which
  /\ \/ which = "network" /\ (NetClient \/ NetLoop)
     \/ which # "network" /\ UNCHANGED networkvars
  /\ \/ which = "array" /\ ElasticNext
     \/ which # "array" /\ UNCHANGED eavars
  /\ \/ which = "map" /\ MapNext
     \/ which # "map" /\ UNCHANGED mapvars
  /\ \/ which = "pool" /\ PoolNext
     \/ which # "pool" /\ UNCHANGED poolvars
  /\ \/ which = "aes" /\ AesNext
     \/ which # "aes" /\ UNCHANGED aesvars
  /\ \/ which = "hash" /\ HashNext
     \/ which # "hash" /\ UNCHANGED hashvars
  /\ \/ which = "entropy" /\ EntropyNext
     \/ which # "entropy" /\ UNCHANGED entropyvars
  /\ \/ which = "json" /\ JsonNext
     \/ which # "json" /\ UNCHANGED jsonvars
  /\ \/ which = "getopt" /\ GetoptNext
     \/ which # "getopt" /\ UNCHANGED getoptvars

Spec == Init /\ [][Next]_allvars

MCSymmetry == Permutations(Recs)

----------------------------------------------------------------------------
(* JSON objects of one or two members; those of one member, and those with  *)
(* a simple first or second member, are cut short anywhere.  Names are      *)
(* written plainly and with escapes; values hold what looks like the end of *)
(* a string or of an object.                                                *)
Member(raw, n, v) == [raw |-> raw, name |-> n, value |-> v]
Values ==
  {<<"t">>, <<"1", "1">>, <<"q", "}", "\\", "q", "q">>, <<"q", "\\", "u", "a", "a", ",", "q">>,
   <<"[", "q", "]", "q", ",", "[", "]", "]">>,
   <<"{", "q", "a", "q", ":", "t", ",", "q", "q", ":", "{", "}", "}">>}
Members ==
  {Member(<<"a">>, <<"a">>, v) : v \in Values}
    \cup {Member(<<"\\", "n">>, <<"newline">>, v) : v \in Values}
    \cup {Member(<<"\\", "u", "a", "a">>, <<"uni">>, v) : v \in Values}
Simple == Member(<<"a">>, <<"a">>, <<"t">>)
SimpleEnd == Member(<<"\\", "n">>, <<"newline">>, <<"t">>)
MCDocuments ==
  {Document(<<>>, n) : n \in 0 .. 3}
    \cup UNION {{Document(<<m>>, n) : n \in 0 .. Len(Written(<<m>>))} : m \in Members}
    \cup UNION {{Document(<<Simple, m>>, n) : n \in 9 .. Len(Written(<<Simple, m>>))} : m \in Members}
    \cup UNION {{Document(<<m, SimpleEnd>>, n) : n \in 9 .. Len(Written(<<m, SimpleEnd>>))} : m \in Members}
    \cup {Document(<<m, k>>, Len(Written(<<m, k>>))) : m, k \in Members}
MCNames == {<<"a">>, <<"newline">>, <<>>}

(* Command lines made of two options and an end.  The switch has an option  *)
(* without an argument, the line for a missing one, an option with one, and *)
(* two long options of which one is a prefix of the other.                  *)
Opt(s, arg) == [os |-> s, hasarg |-> arg]
MCChars == {"-", "=", "a", "c", "f", "o", "v", "x"}
MCSwitch ==
  <<NOOPT, Opt(<<"-", "a">>, FALSE), MISSING, Opt(<<"-", "c">>, TRUE),
    Opt(<<"-", "-", "f">>, TRUE), Opt(<<"-", "-", "f", "o">>, FALSE)>>

Item(words, means) == [words |-> words, means |-> means]
Items ==
  {Item(<<>>, <<>>),
   Item(<<<<"-", "a", "a">>>>, <<Jump(2, NOOPT), Jump(2, NOOPT)>>),
   Item(<<<<"-", "a", "c", "v">>>>, <<Jump(2, NOOPT), Jump(4, <<"v">>)>>),
   Item(<<<<"-", "a", "c">>, <<"-", "a">>>>, <<Jump(2, NOOPT), Jump(4, <<"-", "a">>)>>),
   Item(<<<<"-", "-", "f", "=">>>>, <<Jump(5, <<>>)>>),
   Item(<<<<"-", "-", "f">>, <<"-", "-">>>>, <<Jump(5, <<"-", "-">>)>>),
   Item(<<<<"-", "-", "f", "o">>>>, <<Jump(6, NOOPT)>>),
   Item(<<<<"-", "-", "f", "o", "=">>>>, <<Jump(7, NOOPT)>>),
   Item(<<<<"-", "x", "a">>>>, <<Jump(7, NOOPT), Jump(2, NOOPT)>>)}
LastItems ==
  {[words |-> <<>>, means |-> <<>>, skip |-> 0],
   [words |-> <<<<"-", "-">>, <<"-", "a">>>>, means |-> <<>>, skip |-> 1],
   [words |-> <<<<"-">>>>, means |-> <<>>, skip |-> 0],
   [words |-> <<<<"v">>>>, means |-> <<>>, skip |-> 0],
   [words |-> <<<<"-", "c">>>>, means |-> <<Jump(3, NOOPT)>>, skip |-> 1]}
MCCommands == {x.words \o e.words : x \in Items, e \in LastItems}

(* The reference gives them the meaning that is written here. *)
ASSUME ReferenceRight ==
  \A x \in Items, e \in LastItems :
    Meaning(x.words \o e.words) = Read(x.means \o e.means, 1 + Len(x.words) + e.skip)
=============================================================================
