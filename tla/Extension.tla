----------------------------- MODULE Extension -----------------------------
(***************************************************************************)
(* What an incremental font is for: it "initially supports the configured  *)
(* init subset but can be extended via patches to support any combination  *)
(* of" extension subsets (ift/encoder/compiler.h).  Whoever has the font   *)
(* asks for more and more, each step loads whole extension subsets that    *)
(* are asked for and not there yet, and when the extension is over, all    *)
(* that is asked for and that any of them offers is there.                 *)
(***************************************************************************)
EXTENDS SubsetDefinition, Sequences, FiniteSetsExt

CONSTANTS Input,              \* the requests: [init, extensions, ...]
          Client,             \* the definitions a client may ask for
          DefaultFeatures     \* what every font has

VARIABLES request,
          target,             \* what is asked for
          subset,             \* what is there
          extended            \* the extension is over
vars == <<request, target, subset, extended>>

Extensions(r) == {r.extensions[k] : k \in DOMAIN r.extensions}

UnionAll(d, ds) == FoldSet(LAMBDA e, acc : UnionOf(acc, e), d, ds)

\* of what d asks for, font has everything that s offers
Satisfies(font, d, s) ==
    /\ d.codepoints \cap s.codepoints \subseteq font.codepoints
    /\ d.features \cap s.features \subseteq font.features
    /\ \A x \in DOMAIN d.design_space \cap DOMAIN s.design_space :
          LET a == d.design_space[x]
              b == s.design_space[x]
              both == {p \in Position : Covers(a, <<p, p>>) /\ Covers(b, <<p, p>>)}
          IN  \A p \in both : /\ x \in DOMAIN font.design_space
                              /\ Covers(font.design_space[x], <<p, p>>)

Init == /\ request \in Input
        /\ target = Nothing
        /\ subset = UnionOf(request.init, [Nothing EXCEPT !.features = DefaultFeatures])
        /\ extended = FALSE

Ask == /\ target' \in {d \in Client : Includes(d, target) /\ d # target}
       /\ extended' = FALSE
       /\ UNCHANGED <<request, subset>>

Extend == /\ ~extended
          /\ \E chosen \in SUBSET {s \in Extensions(request) :
                                      Intersects(target, s) /\ ~Includes(subset, s)} :
                chosen # {} /\ subset' = UnionAll(subset, chosen)
          /\ UNCHANGED <<request, target, extended>>

Finish == /\ ~extended
          /\ \A s \in Extensions(request) : Satisfies(subset, target, s)
          /\ extended' = TRUE
          /\ UNCHANGED <<request, target, subset>>

Spec == Init /\ [][Ask \/ Extend \/ Finish]_vars
=============================================================================
