------------------------ MODULE MCPolicySelection ------------------------
(* A package with one overload of Compose on main, to which a second one  *)
(* (an approved name) and Scale (not approved) may be added; two requests.*)
EXTENDS PolicySelection

MCDeclarations == {[name |-> "Compose", code |-> 1], [name |-> "Compose", code |-> 2],
                   [name |-> "Scale", code |-> 3]}

MCAdditions == {"Compose"}

MCTransitions == {<<2, 3>>}

(* Main before the first policy, and main after it. *)
MCFirstContents ==
    {[verifier |-> v, version |-> 2,
      decls |-> <<[name |-> "Compose", code |-> 1]>>] : v \in {"none", "v1"}}

(* The two requests are interchangeable. *)
MCSymmetry == Permutations(Requests)
===========================================================================
