----------------------------- MODULE MCGuardrail -----------------------------
(* A small instance of Guardrail for TLC.                                  *)
EXTENDS Guardrail

CONSTANTS s1, s2, w1

\* An e-mail address, an account number, and the telephone number it also looks like.
ThreePatterns == << [severity |-> 2, score |-> 95], [severity |-> 3, score |-> 90],
                    [severity |-> 2, score |-> 60] >>

Hit(start, end, valid) == [start |-> start, end |-> end, valid |-> valid]
Nothing == [raw |-> <<<<>>, <<>>, <<>>>>, entities |-> {}, rules |-> <<>>, similar |-> NoSignal]
Iban == [Nothing EXCEPT !.raw = << <<>>, <<Hit(4, 8, TRUE)>>, <<Hit(3, 7, TRUE)>> >>]
Mail == [Nothing EXCEPT !.raw = << <<Hit(1, 3, TRUE)>>, <<Hit(1, 3, FALSE)>>, <<>> >>]
Attack == [Nothing EXCEPT !.rules = <<[score |-> 90, severity |-> 2, category |-> 1]>>]

Event(trace, span, type, input, output, broken) ==
    [trace |-> trace, span |-> span, type |-> type, input |-> input, output |-> output,
     broken |-> broken]

\* Trace 1 is attacked and ends clean, trace 2 answers with an account number.
Events == << Event(1, 0, "trace.start", Attack, Nothing, FALSE),
             Event(2, 1, "span.end", Nothing, Iban, FALSE),
             Event(1, 0, "trace.end", Nothing, Mail, FALSE),
             Event(2, 2, "span.start", Mail, Nothing, TRUE) >>

\* The storage writer's batch, whose first event is of the trace with the higher id.
Later == {{2, 3}}

Symmetry == Permutations(Scanners)
==============================================================================
