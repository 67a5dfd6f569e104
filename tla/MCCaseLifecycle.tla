-------------------------- MODULE MCCaseLifecycle ---------------------------
(* Model values and symmetry for checking CaseLifecycle with TLC.           *)
EXTENDS CaseLifecycle, TLC

\* Handlers are interchangeable; the properties checked are safety properties.
Symmetry == Permutations(Requests)

\* The limits are one: what passes them is seen with three contacts, or with three
\* payments, of a case that has few of the other. A promise comes after two at most.
FewRows ==
    \A c \in Cases :
        ContactCount(c) + Len(payments[c]) =<
          IF promise[c] = "NONE" THEN 3 ELSE 2
=============================================================================
