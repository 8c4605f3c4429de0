-------------------------- MODULE MCMapReduceData --------------------------
(* Inputs for model checking MapReduceData.                                *)
EXTENDS MapReduceData

(* Lines of up to two words, the empty line among them.                    *)
WordLines == BoundedSeq({"a", "b"}, 2)

(* "[source],[target]", as in data/ReverseWeblinkGraphInput.txt, and the   *)
(* empty line, for which map_fn emits a pair of empty texts.               *)
LinkLines == {<<s, ",", t>> : s, t \in {"x", "y"}} \cup {<<>>}

AppLines(a) == IF a = "ReverseWeblinkGraph" THEN LinkLines ELSE WordLines

(* Links, and one whose source is two words.                               *)
SpacedLines(a) == LinkLines \cup {<<"x", "y", ",", "x">>}
=============================================================================
