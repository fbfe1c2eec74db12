---------------------------- MODULE PrefixBodyMC ----------------------------
(***************************************************************************)
(* An instance of PrefixBody for TLC.                                      *)
(***************************************************************************)
EXTENDS PrefixBody

(* Two spellings that differ in everything a client may write differently, *)
(* and one that differs from the first in all but the contents.            *)
Parameters == {[name |-> 1, params |-> {"path", "id"}], [name |-> 2, params |-> {"x"}]}
Spelling(i, c, j, n, e) == [ids |-> i, content |-> c, json |-> j, noise |-> n, effort |-> e]
MCSpellings == {Spelling("provider", "text", "raw", "n", "low"),
                Spelling("client", "blocks", "canonical", "m", "high"),
                Spelling("client", "text", "canonical", "m", "high")}
=============================================================================
