-------------------------------- MODULE Dict --------------------------------
(***************************************************************************)
(* The dictionary of core/dict.c: a list of nodes, the newest first.  The  *)
(* lexer lets only names through that valid_key accepts.                   *)
(***************************************************************************)
EXTENDS Integers, Sequences, SequencesExt

\* No value: NULL in C
None == 0

Keys(dict) == {dict[i].key : i \in DOMAIN dict}
Vals(dict) == {dict[i].val : i \in DOMAIN dict}

\* get_node_by_key: the first node with the key
NodeByKey(dict, key) ==
    CHOOSE i \in DOMAIN dict : dict[i].key = key /\ \A j \in 1 .. i - 1 : dict[j].key # key

DictGet(dict, key) ==
    IF key \in Keys(dict) THEN dict[NodeByKey(dict, key)].val ELSE None

DictRemove(dict, key) ==
    IF key \in Keys(dict) THEN RemoveAt(dict, NodeByKey(dict, key)) ELSE dict

\* Mutant of DictInsert: the node with the key stays behind the new one.
DictInsertShadows(dict, key, val) == <<[key |-> key, val |-> val]>> \o dict

\* A key that exists is replaced, whatever the comment says of DICT_KEYEXISTS.
DictInsert(dict, key, val) == <<[key |-> key, val |-> val]>> \o DictRemove(dict, key)
=============================================================================
