----------------------------- MODULE Substitute -----------------------------
(***************************************************************************)
(* The two loops of subst.go on one text: FindTemplateParameters collects  *)
(* the parameters, applyReplacements puts the values in their place.       *)
(* (The names differ from those of SubstituteAndValidate: its proofs use   *)
(* the lemmas about texts that are proved here, and extend both modules.)  *)
(***************************************************************************)
EXTENDS Template

CONSTANTS
    Chars,          \* the classes of characters
    Texts,          \* inputs
    Replacements    \* values of keys

ASSUME TextsAssumption ==
    /\ "$" \in Chars
    /\ \A t \in Texts : t \in Seq(Chars)
    /\ \A k \in DOMAIN Replacements : Replacements[k] \in Seq(Chars)

VARIABLES
    input, parameters, i,   \* of FindTemplateParameters
    n, out, lastEnd,        \* of applyReplacements: the next parameter is n
    loop                    \* find, apply, done

loopVars == <<input, parameters, i, n, out, lastEnd, loop>>

LoopsInit ==
    /\ input \in Texts
    /\ parameters = << >> /\ i = 1 /\ n = 1 /\ out = << >> /\ lastEnd = 0 /\ loop = "find"

Find == loop = "find" /\ i =< Len(input) /\ UNCHANGED <<input, n, out, lastEnd, loop>>

FindEscape ==
    /\ Find /\ IsEscape(input, i)
    /\ parameters' = Append(parameters, Parameter(i, i + 1, << >>, TRUE))
    /\ i' = i + 2

FindKey ==
    /\ Find /\ ~ IsEscape(input, i) /\ input[i] = "$"
    /\ \E p \in FindValidKey(input, i) :
          /\ parameters' = Append(parameters, p)
          /\ i' = p.End + 1

FindNothing ==
    /\ Find /\ ~ IsEscape(input, i)
    /\ input[i] = "$" => FindValidKey(input, i) = {}
    /\ i' = i + 1
    /\ UNCHANGED parameters

FindEnds ==
    /\ loop = "find" /\ i > Len(input)
    /\ loop' = "apply"
    /\ UNCHANGED <<input, parameters, i, n, out, lastEnd>>

Apply_KeepsEnd ==
    /\ loop = "apply" /\ n =< Len(parameters)
    /\ LET p == parameters[n]
       IN  /\ out' = out \o SubSeq(input, lastEnd + 1, p.Start - 1) \o ValueOf(Replacements, p)
           /\ lastEnd' = p.End - 1
    /\ n' = n + 1
    /\ UNCHANGED <<input, parameters, i, loop>>

Apply ==
    /\ loop = "apply" /\ n =< Len(parameters)
    /\ LET p == parameters[n]
       IN  /\ out' = out \o SubSeq(input, lastEnd + 1, p.Start - 1) \o ValueOf(Replacements, p)
           /\ lastEnd' = p.End
    /\ n' = n + 1
    /\ UNCHANGED <<input, parameters, i, loop>>

ApplyEnds ==
    /\ loop = "apply" /\ n > Len(parameters)
    /\ out' = out \o SubSeq(input, lastEnd + 1, Len(input))
    /\ loop' = "done"
    /\ UNCHANGED <<input, parameters, i, n, lastEnd>>

LoopsNext == FindEscape \/ FindKey \/ FindNothing \/ FindEnds \/ Apply \/ ApplyEnds

LoopsSpec == LoopsInit /\ [][LoopsNext]_loopVars
-----------------------------------------------------------------------------
(***************************************************************************)
(* The two passes with their index arithmetic compute the expansion of the *)
(* text, defined on its suffixes; values are not expanded again.           *)
(***************************************************************************)
OutIsExpansion == loop = "done" => out = Expand(Replacements, input)

(* The text that escapes s: every dollar twice. *)
Escaped(s) ==
    LET to[j \in 0 .. Len(s)] ==
            IF j = 0 THEN << >>
            ELSE to[j - 1] \o (IF s[j] = "$" THEN <<"$", "$">> ELSE <<s[j]>>)
    IN  to[Len(s)]

(* Every run of dollars has an even length. *)
DollarsPaired(s) ==
    \A j \in DOMAIN s :
        (s[j] = "$" /\ (j = 1 \/ s[j - 1] # "$")) =>
            LET e == Max({k \in j .. Len(s) : \A l \in j .. k : s[l] = "$"})
            IN  (e - j + 1) % 2 = 0

(***************************************************************************)
(* Escaping is complete: a text written with every dollar doubled comes    *)
(* out with each of them once, whatever stands around the dollars, keys    *)
(* and braces too.                                                         *)
(***************************************************************************)
EscapeRoundTrip == (loop = "done" /\ DollarsPaired(input)) => input = Escaped(out)
=============================================================================
