---------------------------- MODULE MCSubstitute ----------------------------
(* All texts up to a length, and values that look like templates. *)
EXTENDS Substitute

CONSTANT MaxLen

Classes == {"$", "{", "}", "_", "A", "0", "x"}
MCTexts == UNION {[1 .. k -> Classes] : k \in 0 .. MaxLen}

Keys == {<<"A">>, <<"_", "A">>}
MCReplacements == [k \in Keys |-> IF k = <<"A">> THEN <<"x">> ELSE <<"$", "A">>]
=============================================================================
