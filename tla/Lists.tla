------------------------------- MODULE Lists --------------------------------
(* The loop that copies what it is to keep of a list, as the code writes it  *)
(* for subscribers, events and letters.                                      *)
EXTENDS Naturals, Sequences, FiniteSets

(* for _, x := range l { if keep { out = append(out, x) } }                  *)
Keeping(l, keep) ==
  LET out[i \in 0 .. Len(l)] ==    \* after i rounds
        IF i = 0 THEN <<>>
        ELSE IF l[i] \in keep THEN Append(out[i - 1], l[i]) ELSE out[i - 1]
  IN  out[Len(l)]

(* sel is what the list has of keep, in the list's order.                    *)
Selects(sel, l, keep) ==
  LET at == {i \in DOMAIN l : l[i] \in keep}
  IN  /\ DOMAIN sel = 1 .. Cardinality(at)
      /\ \A i \in at : sel[Cardinality({j \in at : j <= i})] = l[i]

=============================================================================
