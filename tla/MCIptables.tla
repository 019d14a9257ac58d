----------------------------- MODULE MCIptables -----------------------------
(* Instance of Iptables for TLC: a built-in chain and a chain whose name   *)
(* begins with its name, one rule, versions on each side of every limit.   *)
EXTENDS Iptables

CONSTANTS c1, c2, out, outDirect, r

MCExtends     == {<<out, outDirect>>}
MCRestoreData == {[c \in {outDirect} |-> {r}]}
MCVersions    == {<<1, 4, 9>>, <<1, 4, 19, 1>>, <<1, 4, 20, 0>>, <<1, 4, 22>>, <<1, 6, 2>>}
=============================================================================
