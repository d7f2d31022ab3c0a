-------------------------- MODULE FiniteSetFacts --------------------------
(***************************************************************************)
(* The facts about finite sets that the proofs count with, as one formula. *)
(* A proof that is long takes the formula as a hypothesis, and proves it   *)
(* from the library's theorems where its last theorems need it, so that    *)
(* the library is not in the context of every step.                        *)
(***************************************************************************)
EXTENDS Integers, FiniteSets

\* How many elements S has with x, and without x.
WithElement(S, x) ==
    /\ IsFiniteSet(S \cup {x})
    /\ Cardinality(S \cup {x}) = IF x \in S THEN Cardinality(S) ELSE Cardinality(S) + 1

WithoutElement(S, x) ==
    /\ IsFiniteSet(S \ {x})
    /\ Cardinality(S \ {x}) = IF x \in S THEN Cardinality(S) - 1 ELSE Cardinality(S)

CardinalityFacts ==
    /\ IsFiniteSet({}) /\ Cardinality({}) = 0
    /\ \A x : IsFiniteSet({x}) /\ Cardinality({x}) = 1
    /\ \A a, b \in Int : IsFiniteSet(a .. b)
    /\ \A S : IsFiniteSet(S) =>
          /\ Cardinality(S) \in Nat /\ (Cardinality(S) = 0 <=> S = {})
          /\ \A x : WithElement(S, x) /\ WithoutElement(S, x)
          /\ \A T \in SUBSET S : IsFiniteSet(T) /\ Cardinality(T) <= Cardinality(S)
    /\ \A S, T : IsFiniteSet(S) /\ IsFiniteSet(T) =>
          /\ IsFiniteSet(S \X T) /\ Cardinality(S \X T) = Cardinality(S) * Cardinality(T)
          /\ IsFiniteSet(S \cup T)
          /\ Cardinality(S \cup T) = Cardinality(S) + Cardinality(T) - Cardinality(S \cap T)
=============================================================================
