------------------------------ MODULE MCHttpd ------------------------------
(* Files that give a key nothing, something usual, and something at or       *)
(* beyond a limit of its type; every way the files for TLS can be missing,   *)
(* broken or good.  The widths keep their order, and the port its 16 bits.   *)
EXTENDS Httpd

MCUShort == 65536
MCIntMax == 100000
MCSize == 1000000

OwnWords == {"0.0.0.0", "nowhere", "DEBUG", "debug", "own.cert"}
MCWords ==
  {DefaultWords[k] : k \in WordKeys} \cup OwnWords
MCLower == [w \in MCWords |-> IF w = "DEBUG" THEN "debug" ELSE w]
MCAddresses == {"127.0.0.1", "0.0.0.0"}

TLSWords == {"cfg/dumb.cert", "cfg/dumb.key", "cfg/dumb.dh", "own.cert"}

\* The texts a key may have.
SomeWords ==
  [address |-> {<<>>, <<"0.0.0.0">>, <<"nowhere">>},
   root |-> {<<>>}, key |-> {<<>>}, dh |-> {<<>>}, version |-> {<<>>},
   level |-> {<<>>, <<"DEBUG">>},
   certificate |-> {<<>>, <<"own.cert">>}]
SomeNumbers == {-65536, -1, 0, 4, 443, 65536, 200000, 1000000}

NoNumbers == [k \in NumberKeys |-> <<>>]

MCFiles ==
  [words : {w \in [WordKeys -> UNION {SomeWords[k] : k \in WordKeys}] :
              \A k \in WordKeys : w[k] \in SomeWords[k]},
   numbers : {NoNumbers} \cup {[NoNumbers EXCEPT ![k] = <<n>>] :
                                 k \in NumberKeys, n \in SomeNumbers}]

MCDisks ==
  {d \in [readable : SUBSET TLSWords, good : SUBSET TLSWords] :
     d.good \subseteq d.readable}
=============================================================================
