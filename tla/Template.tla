------------------------------ MODULE Template ------------------------------
(***************************************************************************)
(* subst.FindTemplateParameters and the applyReplacements of               *)
(* SubstituteBuildFields, index by index.                                  *)
(*                                                                         *)
(* A text is a sequence of character classes: "$", "{", "}", "_", "A" (an  *)
(* upper-case letter), "0" (a digit) and "x" (any other).  Indices start   *)
(* at 1 where those of Go start at 0.                                      *)
(***************************************************************************)
EXTENDS Integers, Sequences, FiniteSetsExt

KeyStart == {"_", "A"}
KeyChar  == {"_", "A", "0"}

(* The end of the longest key that starts at j, or j - 1. *)
KeyEnd(s, j) ==
    Max({e \in j - 1 .. Len(s) : /\ e >= j => s[j] \in KeyStart
                                 /\ \A n \in j .. e : s[n] \in KeyChar})

Parameter(first, last, key, esc) ==
    [Start |-> first, End |-> last, Key |-> key, Escape |-> esc]

(* findValidKeyFromIndex, with validSubstKeyRE: the parameters that start  *)
(* at i, none or one.                                                      *)
FindValidKey(s, i) ==
    LET braced   == KeyEnd(s, i + 2)
        unbraced == KeyEnd(s, i + 1)
        isBraced == /\ i < Len(s) /\ s[i + 1] = "{"
                    /\ braced >= i + 2 /\ braced < Len(s) /\ s[braced + 1] = "}"
    IN  IF isBraced THEN {Parameter(i, braced + 1, SubSeq(s, i + 2, braced), FALSE)}
        ELSE IF i < Len(s) /\ unbraced > i
             THEN {Parameter(i, unbraced, SubSeq(s, i + 1, unbraced), FALSE)}
        ELSE {}

KeyAt(s, i) == CHOOSE p \in FindValidKey(s, i) : TRUE

(* Two consecutive dollars. *)
IsEscape(s, i) == s[i] = "$" /\ i < Len(s) /\ s[i + 1] = "$"

ValueOf_KeepsBoth(replacements, p) ==
    CASE p.Escape -> <<"$", "$">>
      [] ~ p.Escape /\ p.Key \in DOMAIN replacements -> replacements[p.Key]
      [] OTHER -> << >>

(* What a parameter is replaced by; a key without a value goes away. *)
ValueOf(replacements, p) ==
    CASE p.Escape -> <<"$">>
      [] ~ p.Escape /\ p.Key \in DOMAIN replacements -> replacements[p.Key]
      [] OTHER -> << >>

(* The text that SubstituteBuildFields puts in the place of s: the suffix  *)
(* from each index on, from the last one backwards.                        *)
Expand(replacements, s) ==
    LET from[i \in 1 .. Len(s) + 2] ==
            IF i > Len(s) THEN << >>
            ELSE IF IsEscape(s, i) THEN <<"$">> \o from[i + 2]
            ELSE IF s[i] = "$" /\ FindValidKey(s, i) # {}
                 THEN ValueOf(replacements, KeyAt(s, i)) \o from[KeyAt(s, i).End + 1]
                 ELSE <<s[i]>> \o from[i + 1]
    IN  from[1]

(* Keys that FindTemplateParameters finds. *)
KeysIn(s) ==
    LET from[i \in 1 .. Len(s) + 2] ==
            IF i > Len(s) THEN {}
            ELSE IF IsEscape(s, i) THEN from[i + 2]
            ELSE IF s[i] = "$" /\ FindValidKey(s, i) # {}
                 THEN {KeyAt(s, i).Key} \cup from[KeyAt(s, i).End + 1]
                 ELSE from[i + 1]
    IN  from[1]
=============================================================================
