------------------------------ MODULE MCNumchk ------------------------------
(* The driver with three checkers: one invoked by c(), istc with its       *)
(* re-entrant finishing action, and a generic one.                         *)
EXTENDS Numchk

MCCheck == {"istc", "isin", "luhn"}
MCGeneric == {"luhn"}

\* every way these can fire on a string, in the recogniser's order
MCFired ==
    LET Istc == {<<>>, <<"istc">>, <<"istc", "istc">>}
        Isin == {<<>>, <<"isin">>}
        Luhn == {<<>>, <<"luhn">>}
    IN  {a \o b \o c : a \in Istc, b \in Isin, c \in Luhn}

\* checkers that did not fire, and the second istc, refuse; the others do not
MCInput ==
    {s \in [fired : MCFired, verdict : [MCCheck -> {-1, 2, 3}]] :
        \A x \in MCCheck :
            s.verdict[x] >= 0 <=>
                Cardinality({j \in DOMAIN s.fired : s.fired[j] = x}) = 1}
=============================================================================
